---- MODULE Spec2Model ----
(***************************************************************************)
(* COMP713 movie recommendation system.                                    *)
(*                                                                         *)
(* Two parts of the repository are modelled here:                          *)
(*   - the semantic matcher of main.py (load_index, load_recommendation_   *)
(*     file, match_by_keywords, get_recommendations_semantic);             *)
(*   - the aggregation pipeline of process_recommendations.py              *)
(*     (process_movie_chunk, process_user_chunk, the generate functions).  *)
(*                                                                         *)
(* Strings are sequences of tokens.  A token is a word ("Action") or a     *)
(* separator (" ", "_", "-", ","); lower(), replace(), split() and strip() *)
(* act on the tokens as the Python methods act on the characters.          *)
(***************************************************************************)
EXTENDS Integers, Sequences, FiniteSets, TLC

VARIABLES
    \* ---- the input directory data/ ----
    data_movies,      \* the movie chunks data/movies_*.json, in sorted order
    data_users,       \* the user chunks data/user_ratings_*.json, in sorted order
    data_ratings,     \* data/ratings.json: user -> item -> rating
    \* ---- the state directory _state/ ----
    movies_index,     \* _state/movies_index.json: a record, or NoFile
    user_stats,       \* _state/user_stats.json: a record, or NoFile
    \* ---- the output directory shared_recommendations/ ----
    index_json,       \* index.json: a record, or NoFile
    outdir,           \* filename -> recommendation file (the files that exist)
    \* ---- one run of process_recommendations.main ----
    pc,               \* the phase main() is in
    loop_i,           \* the iteration of the loop of that phase
    generated_files,  \* generated_files of generate_all_recommendations
    run,              \* the number of the run
    first_run,        \* the output directory as the first run left it
    crashes,          \* the crashes of main() so far, each followed by a rerun
    \* ---- one call of get_recommendations_semantic ----
    qpc,              \* "idle" | "returned" | "raised"
    args,             \* the argparse namespace of the call
    facet_files,      \* matched_files after the four _match_param calls
    query_terms,      \* the lowercased terms of args.query
    keyword_matches,  \* what match_by_keywords returned
    matched_files,    \* matched_files when the files are loaded
    results,          \* returned list of recommendations
    sources,          \* returned list of source descriptions
    \* ---- the calls of get_recommendations_semantic so far ----
    first_call,       \* the first call and what it gave (a history variable)
    \* ---- one call into the package prime ----
    prime_call,       \* the function called, its arguments, locals and outcome
    \* ---- one DiscoveryQuestions object and its ask_questions call ----
    dq_pc,            \* "off" | "constructed" | "input" | "offer" | "returned"
    round_num,        \* self.round_num
    preferences,      \* self.preferences
    parsed,           \* what parse_preferences returned in the last turn
    replies           \* the conversational replies given so far (a history variable)

matcher_vars == <<qpc, args, facet_files, query_terms, keyword_matches,
                  matched_files, results, sources, first_call>>
artifact_vars == <<index_json, outdir>>
data_vars == <<data_movies, data_users, data_ratings>>
prime_vars == <<prime_call>>
chat_vars == <<dq_pc, round_num, preferences, parsed, replies>>
state_vars == <<movies_index, user_stats>>
main_vars == <<pc, loop_i, generated_files, run, first_run, crashes>>
vars == <<data_movies, data_users, data_ratings, prime_call, movies_index, user_stats, index_json, outdir,
          pc, loop_i, generated_files, run, first_run, crashes,
          qpc, args, facet_files, query_terms, keyword_matches, matched_files,
          results, sources, first_call,
          dq_pc, round_num, preferences, parsed, replies>>

----------------------------------------------------------------------------
(* Bounds of the model *)

\* item ids are 1..MaxItem
MaxItem == 2

\* main() crashes and is rerun at most MaxCrashes times
MaxCrashes == 2

\* at most MaxLaterCalls calls of the matcher follow the first one
MaxLaterCalls == 2

----------------------------------------------------------------------------
(* Strings *)

None == <<"<None>">>
NoFile == [absent |-> TRUE]

\* bool(value) of an optional string: None and "" are false
Truthy(s) == s /= None /\ s /= <<>>

\* str.lower(), token by token
LowerTok(t) ==
    CASE t = "Action"   -> "action"
      [] t = "Sci"      -> "sci"
      [] t = "Fi"       -> "fi"
      [] t = "Drama"    -> "drama"
      [] t = "Exciting" -> "exciting"
      [] t = "EXCITING" -> "exciting"
      [] t = "Thrilling" -> "thrilling"
      [] t = "Charming" -> "charming"
      [] t = "Somber"   -> "somber"
      [] t = "Z"        -> "z"
      [] t = "Gamer"    -> "gamer"
      [] t = "POPULAR"  -> "popular"
      [] t = "Classic"  -> "classic"
      [] t = "Modern"   -> "modern"
      [] t = "Revolutionary" -> "revolutionary"
      [] t = "Romantic" -> "romantic"
      [] t = "Heartwarming" -> "heartwarming"
      [] t = "Witty"    -> "witty"
      [] t = "Intense"  -> "intense"
      [] t = "Suspenseful" -> "suspenseful"
      [] t = "Psychological" -> "psychological"
      [] t = "Serious"  -> "serious"
      [] t = "Philosophical" -> "philosophical"
      [] t = "Mind"     -> "mind"
      [] t = "Powerful" -> "powerful"
      [] t = "Emotional" -> "emotional"
      [] t = "Hopeful"  -> "hopeful"
      [] t = "Bittersweet" -> "bittersweet"
      [] t = "Quirky"   -> "quirky"
      [] t = "Parent"   -> "parent"
      [] t = "Done"     -> "done"
      [] t = "Chat"     -> "chat"
      [] t = "N"        -> "n"
      [] OTHER          -> t

lower(s) == [i \in 1..Len(s) |-> LowerTok(s[i])]

\* str.replace(a, b) for single-character a and b
replace(s, a, b) == [i \in 1..Len(s) |-> IF s[i] = a THEN b ELSE s[i]]

IsSpace(t) == t = " "

RECURSIVE lstrip(_)
lstrip(s) == IF s /= <<>> /\ IsSpace(Head(s)) THEN lstrip(Tail(s)) ELSE s

RECURSIVE rstrip(_)
rstrip(s) ==
    IF s /= <<>> /\ IsSpace(s[Len(s)]) THEN rstrip(SubSeq(s, 1, Len(s) - 1)) ELSE s

\* str.strip()
strip(s) == rstrip(lstrip(s))

RECURSIVE split_at(_, _, _)
split_at(s, sep, cur) ==
    IF s = <<>> THEN <<cur>>
    ELSE IF Head(s) = sep THEN <<cur>> \o split_at(Tail(s), sep, <<>>)
    ELSE split_at(Tail(s), sep, Append(cur, Head(s)))

\* str.split(sep): every piece, the empty ones included
split(s, sep) == split_at(s, sep, <<>>)

\* str.split(): pieces between runs of whitespace, no empty piece
split_ws(s) == SelectSeq(split_at(s, " ", <<>>), LAMBDA p : p /= <<>>)

Range(s) == {s[i] : i \in 1..Len(s)}

Contains(s, x) == \E i \in 1..Len(s) : s[i] = x

Reverse(s) == [i \in 1..Len(s) |-> s[Len(s) + 1 - i]]

----------------------------------------------------------------------------
(* main.py: the matcher *)

FALLBACK_POPULAR == <<"fallback_", "popular", ".json">>

\* load_index(): the parsed index.json
load_index == index_json

FileExists(filename) == filename \in DOMAIN outdir

\* load_recommendation_file(filename): the parsed file (the caller has
\* checked FileExists; open() raises otherwise)
load_recommendation_file(filename) == outdir[filename]

\* score of one index entry: the number of query terms among its
\* lowercased match_keywords
KeywordScore(file_entry, terms) ==
    LET keywords == {lower(file_entry.match_keywords[k]) :
                        k \in 1..Len(file_entry.match_keywords)}
    IN  Cardinality({i \in 1..Len(terms) : terms[i] \in keywords})

\* faulty variant: the is_fallback test is missing
RECURSIVE ScoreEntries_WithFallback(_, _)
ScoreEntries_WithFallback(files, terms) ==
    IF files = <<>> THEN <<>>
    ELSE LET file_entry == Head(files)
             rest == ScoreEntries_WithFallback(Tail(files), terms)
             score == KeywordScore(file_entry, terms)
         IN  IF score > 0
             THEN <<[filename |-> file_entry.filename, score |-> score,
                     entry |-> file_entry]>> \o rest
             ELSE rest

\* the entries kept by the loop of match_by_keywords, in index order
RECURSIVE ScoreEntries(_, _)
ScoreEntries(files, terms) ==
    IF files = <<>> THEN <<>>
    ELSE LET file_entry == Head(files)
             rest == ScoreEntries(Tail(files), terms)
             score == KeywordScore(file_entry, terms)
         IN  IF file_entry.is_fallback THEN rest
             ELSE IF score > 0
                  THEN <<[filename |-> file_entry.filename, score |-> score,
                          entry |-> file_entry]>> \o rest
                  ELSE rest

\* faulty variant: reverse=True is missing, the smallest score comes first
SortByScoreAsc(scored, top) ==
    LET F[t \in 0..top] ==
            IF t = 0 THEN <<>>
            ELSE F[t - 1] \o SelectSeq(scored, LAMBDA x : x.score = t)
    IN  F[top]

\* list.sort(key=score, reverse=True): stable, largest score first
RECURSIVE SortByScoreDesc(_, _)
SortByScoreDesc(scored, top) ==
    IF top = 0 THEN <<>>
    ELSE SelectSeq(scored, LAMBDA x : x.score = top) \o SortByScoreDesc(scored, top - 1)

match_by_keywords(index, terms) ==
    SortByScoreDesc(ScoreEntries(index.files, terms), Len(terms))

\* faulty variant: the type of the entry is not compared
FirstMatch_IgnoreType(files, file_type, val) ==
    LET hits == {i \in 1..Len(files) : lower(files[i].tag) = lower(val)}
    IN  IF hits = {} THEN 0 ELSE CHOOSE i \in hits : \A j \in hits : i <= j

\* the first entry of the index with the type and (case-insensitively) the tag
FirstMatch(files, file_type, val) ==
    LET hits == {i \in 1..Len(files) :
                    files[i].type = file_type /\ lower(files[i].tag) = lower(val)}
    IN  IF hits = {} THEN 0 ELSE CHOOSE i \in hits : \A j \in hits : i <= j

\* the loop over the comma-separated values of one parameter
RECURSIVE MatchValues(_, _, _, _, _)
MatchValues(values, file_type, underscore_to_space, files, matched) ==
    IF values = <<>> THEN matched
    ELSE LET val == IF underscore_to_space THEN replace(Head(values), "_", " ")
                    ELSE Head(values)
             hit == FirstMatch(files, file_type, val)
             now == IF hit /= 0 /\ ~Contains(matched, files[hit].filename)
                    THEN Append(matched, files[hit].filename)
                    ELSE matched
         IN  MatchValues(Tail(values), file_type, underscore_to_space, files, now)

\* _match_param(param_value, file_type, tag_transform)
match_param(param_value, file_type, underscore_to_space, index, matched) ==
    IF ~Truthy(param_value) THEN matched
    ELSE LET parts == split(param_value, ",")
             values == [i \in 1..Len(parts) |-> strip(parts[i])]
         IN  MatchValues(values, file_type, underscore_to_space, index.files, matched)

\* the four _match_param calls, in the order of the code
MatchFacets(a, index) ==
    LET m1 == match_param(a.segment, "segment", TRUE, index, <<>>)
        m2 == match_param(a.mood, "mood", FALSE, index, m1)
        m3 == match_param(a.genre, "genre", FALSE, index, m2)
    IN  match_param(a.era, "era", FALSE, index, m3)

\* query_terms = [t.strip().lower() for t in args.query.split() if t.strip()]
QueryTerms(q) ==
    LET words == SelectSeq(split_ws(q), LAMBDA t : strip(t) /= <<>>)
    IN  [i \in 1..Len(words) |-> lower(strip(words[i]))]

\* the loop over keyword_matches, with its break
RECURSIVE AppendKeywordMatches(_, _)
AppendKeywordMatches(matches, matched) ==
    IF matches = <<>> THEN matched
    ELSE LET filename == Head(matches).filename
             now == IF ~Contains(matched, filename) THEN Append(matched, filename)
                    ELSE matched
         IN  IF Len(now) >= 3 THEN now
             ELSE AppendKeywordMatches(Tail(matches), now)

\* cold start
ColdStart(matched) == IF matched = <<>> THEN <<FALLBACK_POPULAR>> ELSE matched

\* faulty variant: seen_ids is not consulted
CollectFile_NoDedup(recs, source_desc, acc) ==
    acc \o [i \in 1..Len(recs) |->
               [rank |-> recs[i].rank, item_id |-> recs[i].item_id, source |-> source_desc]]

\* faulty variant: an item seen again is re-labelled with the later file's description
RECURSIVE CollectFile_LastWins(_, _, _)
CollectFile_LastWins(recs, source_desc, acc) ==
    IF recs = <<>> THEN acc
    ELSE LET rec == Head(recs)
             seen_ids == {acc[i].item_id : i \in 1..Len(acc)}
             now == IF rec.item_id \notin seen_ids
                    THEN Append(acc, [rank |-> rec.rank, item_id |-> rec.item_id,
                                      source |-> source_desc])
                    ELSE [i \in 1..Len(acc) |->
                            IF acc[i].item_id = rec.item_id
                            THEN [acc[i] EXCEPT !.source = source_desc]
                            ELSE acc[i]]
         IN  CollectFile_LastWins(Tail(recs), source_desc, now)

\* the inner loop over rec_data['recommendations']
RECURSIVE CollectFile(_, _, _)
CollectFile(recs, source_desc, acc) ==
    IF recs = <<>> THEN acc
    ELSE LET rec == Head(recs)
             seen_ids == {acc[i].item_id : i \in 1..Len(acc)}
             now == IF rec.item_id \notin seen_ids
                    THEN Append(acc, [rank |-> rec.rank, item_id |-> rec.item_id,
                                      source |-> source_desc])
                    ELSE acc
         IN  CollectFile(Tail(recs), source_desc, now)

\* the outer loop over matched_files: results
RECURSIVE CollectResults(_, _)
CollectResults(filenames, acc) ==
    IF filenames = <<>> THEN acc
    ELSE LET rec_data == load_recommendation_file(Head(filenames))
         IN  CollectResults(Tail(filenames),
                            CollectFile(rec_data.recommendations,
                                        rec_data.meta.description, acc))

\* faulty variant: a file with no recommendation is not named among the sources
CollectSources_SkipEmpty(filenames) ==
    LET kept == SelectSeq(filenames,
                    LAMBDA f : load_recommendation_file(f).recommendations /= <<>>)
    IN  [i \in 1..Len(kept) |-> load_recommendation_file(kept[i]).meta.description]

\* the outer loop over matched_files: sources
CollectSources(filenames) ==
    [i \in 1..Len(filenames) |-> load_recommendation_file(filenames[i]).meta.description]

\* faulty variant: each loaded file is saved again, its recommendations
\* labelled with their source
FilesAfterCall_SourceSaved(matched) ==
    [f \in DOMAIN outdir |->
        IF Contains(matched, f)
        THEN [outdir[f] EXCEPT !.recommendations =
                 [i \in 1..Len(@) |-> [rank |-> @[i].rank, item_id |-> @[i].item_id,
                                       source |-> outdir[f].meta.description]]]
        ELSE outdir[f]]

\* the output directory after a call: the files are opened for reading
\* only, and rec['_source'] is set on the loaded copy
FilesAfterCall(matched) == outdir

\* get_recommendations_semantic(args)
get_recommendations_semantic(a) ==
    /\ qpc = "idle"
    /\ index_json /= NoFile
    /\ LET index == load_index
           facets == MatchFacets(a, index)
           terms == IF Truthy(a.query) THEN QueryTerms(a.query) ELSE <<>>
           kw == IF Truthy(a.query) THEN match_by_keywords(index, terms) ELSE <<>>
           withkw == IF Truthy(a.query) THEN AppendKeywordMatches(kw, facets) ELSE facets
           matched == ColdStart(withkw)
       IN  /\ args' = a
           /\ facet_files' = facets
           /\ query_terms' = terms
           /\ keyword_matches' = kw
           /\ matched_files' = matched
           /\ outdir' = FilesAfterCall(matched)
           /\ IF \A i \in 1..Len(matched) : FileExists(matched[i])
              THEN /\ results' = CollectResults(matched, <<>>)
                   /\ sources' = CollectSources(matched)
                   /\ qpc' = "returned"
              ELSE /\ results' = <<>>
                   /\ sources' = <<>>
                   /\ qpc' = "raised"
    /\ UNCHANGED <<index_json, data_vars, prime_vars, chat_vars, state_vars, main_vars>>

NoArgs == [segment |-> None, mood |-> None, genre |-> None, era |-> None, query |-> None]

\* the caller takes the returned value (or the exception) and the locals die
QueryDone ==
    /\ qpc \in {"returned", "raised"}
    /\ qpc' = "idle"
    /\ args' = NoArgs
    /\ facet_files' = <<>>
    /\ query_terms' = <<>>
    /\ keyword_matches' = <<>>
    /\ matched_files' = <<>>
    /\ results' = <<>>
    /\ sources' = <<>>
    /\ UNCHANGED <<artifact_vars, data_vars, prime_vars, chat_vars, state_vars, main_vars, first_call>>

----------------------------------------------------------------------------
(* Hand-made artifacts for the matcher: any index, any files *)

ItemIds == 1..MaxItem

\* a recommendations array holding the given item ids, ranked by position
RecsOf(ids) == [i \in 1..Len(ids) |-> [rank |-> i, item_id |-> ids[i]]]

Ascending == [i \in 1..MaxItem |-> i]

\* the recommendations arrays a hand-made file may hold: empty, a single
\* item, all items in descending order, and all items in ascending order
\* followed by a repeat of the first
FileMenu ==
    {<<>>, <<1>>, Reverse(Ascending), Append(Ascending, 1)}

IndexEntry(filename, type, tag, description, match_keywords, is_fallback) ==
    [filename |-> filename, type |-> type, tag |-> tag, description |-> description,
     match_keywords |-> match_keywords, item_count |-> 0, is_fallback |-> is_fallback]

SegmentGamer ==
    IndexEntry(<<"segment_", "gamer", ".json">>, "segment", <<"gamer">>,
               <<"Movies highly rated by ", "gamer", " users">>,
               <<<<"gamer">>, <<"action">>, <<"exciting">>>>, FALSE)
SegmentGenZ ==
    IndexEntry(<<"segment_", "gen", "_", "z", ".json">>, "segment", <<"gen", " ", "Z">>,
               <<"Movies highly rated by ", "gen", " ", "Z", " users">>,
               <<<<"gen", " ", "Z">>, <<"action">>>>, FALSE)
MoodExciting ==
    IndexEntry(<<"mood_", "exciting", ".json">>, "mood", <<"exciting">>,
               <<"Movies perfect for a ", "exciting", " mood">>,
               <<<<"exciting">>, <<"Exciting">>, <<"Thrilling">>>>, FALSE)
GenreAction ==
    IndexEntry(<<"genre_", "action", ".json">>, "genre", <<"Action">>,
               <<"Top ", "Action", " movies">>,
               <<<<"action">>, <<"Action">>>>, FALSE)
Era90s ==
    IndexEntry(<<"era_", "90s", ".json">>, "era", <<"90s">>,
               <<"Top movies from the ", "90s", " era">>,
               <<<<"90s">>, <<"90s">>>>, FALSE)
\* a fallback entry whose keywords overlap with query terms
FallbackPopular ==
    IndexEntry(FALLBACK_POPULAR, "fallback", <<"popular">>,
               <<"Most popular movies - use when no specific match found">>,
               <<<<"popular">>, <<"action">>>>, TRUE)
FallbackAcclaimed ==
    IndexEntry(<<"fallback_", "acclaimed", ".json">>, "fallback", <<"acclaimed">>,
               <<"Most acclaimed movies - use when no specific match found">>,
               <<>>, TRUE)

EntryPool ==
    <<SegmentGamer, FallbackPopular, MoodExciting, GenreAction, SegmentGenZ, Era90s,
      FallbackAcclaimed>>

\* the file lists of the hand-made indexes
HandMadeFileLists ==
    {EntryPool, Reverse(EntryPool),
     SelectSeq(EntryPool, LAMBDA e : e.type \notin {"era", "mood"})}

FileOf(entry, recs) ==
    [meta |-> [tag |-> entry.tag, type |-> entry.type,
               description |-> entry.description,
               match_keywords |-> entry.match_keywords,
               is_fallback |-> entry.is_fallback],
     recommendations |-> RecsOf(recs)]

\* the files of a directory: segment files hold a, mood and genre files b,
\* era and fallback files c
HandMadeDir(a, b, c) ==
    [f \in Range([i \in 1..Len(EntryPool) |-> EntryPool[i].filename]) |->
        LET entry == CHOOSE e \in Range(EntryPool) : e.filename = f
        IN  FileOf(entry, CASE entry.type = "segment" -> a
                            [] entry.type \in {"mood", "genre"} -> b
                            [] OTHER -> c)]

HandMadeIndex(files) ==
    [total_movies_indexed |-> MaxItem, total_users_analyzed |-> 0,
     total_recommendation_files |-> Len(files), files |-> files]

\* the queries of the model
SegmentArgs ==
    {None, <<"gamer">>, <<"gen", "_", "z", " ", ",", " ", "Gamer">>,
     <<" ", ",", "Action">>}
MoodArgs == {None, <<"EXCITING">>}
GenreArgs == {None, <<"action", ",", "nope", ",">>}
EraArgs == {None, <<"90s">>}
QueryArgs ==
    {None, <<"action", " ", "Thrilling", " ", " ", "gamer">>, <<"POPULAR", " ", "90s">>,
     <<"zzz">>}

Queries ==
    [segment : SegmentArgs, mood : MoodArgs, genre : GenreArgs, era : EraArgs,
     query : QueryArgs]

\* no call yet
NoCall == [args |-> None]

MatcherIdle ==
    /\ qpc = "idle"
    /\ args = NoArgs
    /\ facet_files = <<>>
    /\ query_terms = <<>>
    /\ keyword_matches = <<>>
    /\ matched_files = <<>>
    /\ results = <<>>
    /\ sources = <<>>
    /\ first_call = NoCall

\* no ratings file is loaded and the package prime is not called
PrimeOff ==
    /\ data_ratings = <<>>
    /\ prime_call = [fn |-> "none"]

\* no DiscoveryQuestions object exists
ChatOff ==
    /\ dq_pc = "off"
    /\ round_num = 0
    /\ preferences = <<>>
    /\ parsed = <<>>
    /\ replies = 0

\* no pipeline runs while the hand-made artifacts are queried
PipelineOff ==
    /\ data_movies = <<>>
    /\ data_users = <<>>
    /\ movies_index = NoFile
    /\ user_stats = NoFile
    /\ pc = "off"
    /\ loop_i = 0
    /\ generated_files = <<>>
    /\ run = 0
    /\ first_run = <<>>
    /\ crashes = 0

InitMatch ==
    /\ PipelineOff
    /\ \E files \in HandMadeFileLists : index_json = HandMadeIndex(files)
    /\ \E a \in FileMenu, b \in FileMenu, c \in FileMenu : outdir = HandMadeDir(a, b, c)
    /\ MatcherIdle
    /\ PrimeOff
    /\ ChatOff

Query ==
    /\ \E a \in Queries : get_recommendations_semantic(a)
    /\ UNCHANGED first_call

NextMatch == Query \/ QueryDone

SpecMatch == InitMatch /\ [][NextMatch]_vars

\* sequences of calls on the same artifacts, the first call remembered
RepeatQueries ==
    [segment : {None, <<"gamer">>}, mood : {None}, genre : GenreArgs, era : {None},
     query : {None, <<"action", " ", "Thrilling", " ", " ", "gamer">>, <<"zzz">>}]

InitRepeat ==
    /\ PipelineOff
    /\ \E files \in HandMadeFileLists : index_json = HandMadeIndex(files)
    /\ \E a \in {<<1>>, Append(Ascending, 1)}, b \in {<<>>, Reverse(Ascending)} :
           outdir = HandMadeDir(a, b, Ascending)
    /\ MatcherIdle
    /\ PrimeOff
    /\ ChatOff

RepeatQuery ==
    /\ first_call /= NoCall => first_call.later < MaxLaterCalls
    /\ \E a \in RepeatQueries : get_recommendations_semantic(a)
    /\ first_call' = IF first_call = NoCall
                     THEN [args |-> args', outcome |-> qpc', results |-> results',
                           sources |-> sources', later |-> 0]
                     ELSE [first_call EXCEPT !.later = @ + 1]

NextRepeat == RepeatQuery \/ QueryDone

SpecRepeat == InitRepeat /\ [][NextRepeat]_vars

----------------------------------------------------------------------------
(* Claims about the matcher *)

Returned == qpc = "returned"

\* the index entry that names a file
EntryOf(filename) ==
    CHOOSE e \in Range(index_json.files) : e.filename = filename

\* the stripped comma-separated values of a facet parameter
FacetValues(param_value, underscore_to_space) ==
    IF ~Truthy(param_value) THEN {}
    ELSE {IF underscore_to_space THEN replace(strip(v), "_", " ") ELSE strip(v) :
            v \in Range(split(param_value, ","))}

\* the index entries a facet parameter resolves to
Resolved(param_value, file_type, underscore_to_space) ==
    {e \in Range(index_json.files) :
        /\ e.type = file_type
        /\ \E v \in FacetValues(param_value, underscore_to_space) : lower(e.tag) = lower(v)}

ResolvedAll ==
    Resolved(args.segment, "segment", TRUE) \cup Resolved(args.mood, "mood", FALSE)
        \cup Resolved(args.genre, "genre", FALSE) \cup Resolved(args.era, "era", FALSE)

\* position of the first matched file that holds the item, and the place of
\* the item in that file
FirstFile(item_id) ==
    CHOOSE i \in 1..Len(matched_files) :
        /\ \E k \in 1..Len(outdir[matched_files[i]].recommendations) :
              outdir[matched_files[i]].recommendations[k].item_id = item_id
        /\ \A j \in 1..(i - 1) :
              \A k \in 1..Len(outdir[matched_files[j]].recommendations) :
                 outdir[matched_files[j]].recommendations[k].item_id /= item_id

FirstPlace(item_id) ==
    LET recs == outdir[matched_files[FirstFile(item_id)]].recommendations
    IN  CHOOSE k \in 1..Len(recs) :
            /\ recs[k].item_id = item_id
            /\ \A j \in 1..(k - 1) : recs[j].item_id /= item_id

MatchedItems ==
    UNION {{outdir[matched_files[i]].recommendations[k].item_id :
                k \in 1..Len(outdir[matched_files[i]].recommendations)} :
           i \in 1..Len(matched_files)}

\* C1: the item ids of a returned result list are pairwise distinct, however
\* many files were matched and even if one file repeats an item id.
C1_DistinctItemIds ==
    Returned =>
        \A i, j \in 1..Len(results) :
            i /= j => results[i].item_id /= results[j].item_id

\* C1 witness: two or more files were loaded, one of them repeats an item id,
\* and the returned list holds two or more items.
C1_Witness ==
    /\ Returned
    /\ Len(matched_files) >= 2
    /\ Len(results) >= 2
    /\ \E i \in 1..Len(matched_files) :
          LET recs == outdir[matched_files[i]].recommendations
          IN  \E k, l \in 1..Len(recs) : k /= l /\ recs[k].item_id = recs[l].item_id

TypeOrder(t) ==
    CASE t = "segment" -> 1 [] t = "mood" -> 2 [] t = "genre" -> 3 [] t = "era" -> 4
      [] OTHER -> 5

\* the facet parameters that hold exactly one value, which resolves
SingleResolved(param_value, file_type, underscore_to_space) ==
    /\ Cardinality(FacetValues(param_value, underscore_to_space)) = 1
    /\ Cardinality(Resolved(param_value, file_type, underscore_to_space)) = 1

\* C3: one source description per matched file, in match order (segment,
\* mood, genre, era, then keyword matches), also for a file that adds no item;
\* four facets that each resolve to a file of their own, and no free text,
\* give exactly 4 sources.
C3_OneSourcePerMatchedFile ==
    Returned =>
        /\ Len(sources) = Len(matched_files)
        /\ \A i \in 1..Len(sources) :
              /\ FileExists(matched_files[i])
              /\ matched_files[i] /= FALLBACK_POPULAR =>
                    sources[i] = EntryOf(matched_files[i]).description
        /\ \A i, j \in 1..Len(facet_files) :
              i < j => TypeOrder(EntryOf(facet_files[i]).type)
                          <= TypeOrder(EntryOf(facet_files[j]).type)
        /\ facet_files /= <<>> =>
              /\ Len(facet_files) <= Len(matched_files)
              /\ SubSeq(matched_files, 1, Len(facet_files)) = facet_files
        /\ \A i \in (Len(facet_files) + 1)..Len(matched_files) :
              \/ \E k \in 1..Len(keyword_matches) :
                    keyword_matches[k].filename = matched_files[i]
              \/ matched_files = <<FALLBACK_POPULAR>>
        /\ ( /\ SingleResolved(args.segment, "segment", TRUE)
             /\ SingleResolved(args.mood, "mood", FALSE)
             /\ SingleResolved(args.genre, "genre", FALSE)
             /\ SingleResolved(args.era, "era", FALSE)
             /\ ~Truthy(args.query) ) => Len(sources) = 4

\* C3 witness: the four facets resolve, no free text, and one of the four
\* files added no item to the results.
C3_Witness ==
    /\ Returned
    /\ SingleResolved(args.segment, "segment", TRUE)
    /\ SingleResolved(args.mood, "mood", FALSE)
    /\ ~Truthy(args.query)
    /\ Len(facet_files) = 4
    /\ Len(sources) = 4
    /\ \E i \in 1..4 : \A k \in 1..Len(results) : results[k].source /= sources[i]

\* the filenames of the keyword matches that the facets had not matched
NewlySeen ==
    LET names == [k \in 1..Len(keyword_matches) |-> keyword_matches[k].filename]
    IN  SelectSeq(names, LAMBDA f : ~Contains(facet_files, f))

FirstThree(s) == SubSeq(s, 1, IF Len(s) < 3 THEN Len(s) ELSE 3)

\* C4 (as claimed): with free text, the first 3 newly seen filenames of the
\* keyword matches are appended, whatever the number of facet files.
C4_AppendsThreeNewFiles ==
    (qpc /= "idle" /\ Truthy(args.query) /\ (facet_files /= <<>> \/ keyword_matches /= <<>>))
        => matched_files = facet_files \o FirstThree(NewlySeen)

\* C5: no fallback entry is returned by match_by_keywords, and a fallback
\* file is in the match list only by the cold-start rule.
C5_FallbackNeverKeywordMatched ==
    qpc /= "idle" =>
        /\ \A k \in 1..Len(keyword_matches) :
              /\ ~keyword_matches[k].entry.is_fallback
              /\ EntryOf(keyword_matches[k].filename).type /= "fallback"
        /\ \A i \in 1..Len(matched_files) :
              (\E e \in Range(index_json.files) :
                    e.filename = matched_files[i] /\ e.is_fallback)
                 => /\ matched_files = <<FALLBACK_POPULAR>>
                    /\ facet_files = <<>>
                    /\ NewlySeen = <<>>

\* C5 witness: a query term is a keyword of a fallback entry, and
\* match_by_keywords returned something.
C5_Witness ==
    /\ Returned
    /\ keyword_matches /= <<>>
    /\ \E e \in Range(index_json.files) :
          /\ e.is_fallback
          /\ \E t \in Range(query_terms) : t \in Range(e.match_keywords)

\* the query terms that are keywords of the entry, counted by position
TermHits(e) ==
    {i \in 1..Len(query_terms) :
        \E k \in 1..Len(e.match_keywords) : query_terms[i] = lower(e.match_keywords[k])}

\* C6: match_by_keywords returns exactly the non-fallback entries with a
\* matching term, each once and with the number of matching terms as its
\* score, in order of non-increasing score.
C6_KeywordMatchesExact ==
    (qpc /= "idle" /\ Truthy(args.query)) =>
        /\ {keyword_matches[k].entry : k \in 1..Len(keyword_matches)}
              = {e \in Range(index_json.files) : ~e.is_fallback /\ TermHits(e) /= {}}
        /\ \A k, l \in 1..Len(keyword_matches) :
              k /= l => keyword_matches[k].entry /= keyword_matches[l].entry
        /\ \A k \in 1..Len(keyword_matches) :
              /\ keyword_matches[k].score = Cardinality(TermHits(keyword_matches[k].entry))
              /\ keyword_matches[k].filename = keyword_matches[k].entry.filename
        /\ \A k, l \in 1..Len(keyword_matches) :
              k < l => keyword_matches[k].score >= keyword_matches[l].score

\* C6 witness: entries with different scores were returned, the smaller score
\* standing first in the index, and one entry matched only through a keyword
\* with an upper-case letter.
C6_Witness ==
    /\ qpc = "returned"
    /\ \E k, l \in 1..Len(keyword_matches) :
          /\ keyword_matches[k].score > keyword_matches[l].score
          /\ \E i, j \in 1..Len(index_json.files) :
                /\ i < j
                /\ index_json.files[i] = keyword_matches[l].entry
                /\ index_json.files[j] = keyword_matches[k].entry
    /\ \E k \in 1..Len(keyword_matches) :
          \A t \in Range(query_terms) : t \notin Range(keyword_matches[k].entry.match_keywords)

\* C7: a facet value that matches no entry of its type (or is empty after
\* trimming) adds no file and raises nothing; when no facet value and no
\* keyword resolves, the call returns what the cold start returns.
C7_UnmatchedValueIgnored ==
    qpc /= "idle" =>
        /\ {facet_files[i] : i \in 1..Len(facet_files)} = {e.filename : e \in ResolvedAll}
        /\ (ResolvedAll = {} /\ keyword_matches = <<>>) =>
              /\ matched_files = <<FALLBACK_POPULAR>>
              /\ qpc = "returned"
              /\ sources = <<outdir[FALLBACK_POPULAR].meta.description>>
              /\ results = CollectResults(<<FALLBACK_POPULAR>>, <<>>)

\* C7 witness: a call with a value that matches no entry of its type but the
\* tag of another type, an empty value, and free text that matches nothing.
C7_Witness ==
    /\ Returned
    /\ args.segment = <<" ", ",", "Action">>
    /\ Truthy(args.query)
    /\ keyword_matches = <<>>
    /\ ResolvedAll = {}
    /\ results /= <<>>

\* C8: results stand in matched-file order, then in file order; each kept
\* item carries the description of the first matched file that holds it.
C8_FirstSeenWins ==
    Returned =>
        /\ {results[p].item_id : p \in 1..Len(results)} = MatchedItems
        /\ \A p \in 1..Len(results) :
              LET f == FirstFile(results[p].item_id)
                  k == FirstPlace(results[p].item_id)
              IN  /\ results[p].source = outdir[matched_files[f]].meta.description
                  /\ results[p].rank = outdir[matched_files[f]].recommendations[k].rank
        /\ \A p, q \in 1..Len(results) :
              p < q =>
                 \/ FirstFile(results[p].item_id) < FirstFile(results[q].item_id)
                 \/ /\ FirstFile(results[p].item_id) = FirstFile(results[q].item_id)
                    /\ FirstPlace(results[p].item_id) < FirstPlace(results[q].item_id)

\* C8 witness: an item of the results is held by two matched files, at
\* different places, and a later file still added an item of its own.
C8_Witness ==
    /\ Returned
    /\ \E p \in 1..Len(results) :
          \E j \in 1..Len(matched_files) :
             /\ j > FirstFile(results[p].item_id)
             /\ \E k \in 1..Len(outdir[matched_files[j]].recommendations) :
                   /\ outdir[matched_files[j]].recommendations[k].item_id = results[p].item_id
                   /\ k /= FirstPlace(results[p].item_id)
    /\ \E p \in 1..Len(results) : FirstFile(results[p].item_id) > 1

----------------------------------------------------------------------------
(* Python dicts: insertion-ordered, a sequence of [k, v] entries *)

Has(d, key) == \E i \in 1..Len(d) : d[i].k = key

Get(d, key) == d[CHOOSE i \in 1..Len(d) : d[i].k = key].v

\* d.get(key, default)
GetOr(d, key, default) == IF Has(d, key) THEN Get(d, key) ELSE default

\* d[key] = val: a new key goes last, an old key keeps its place
Put(d, key, val) ==
    IF Has(d, key)
    THEN LET at == CHOOSE i \in 1..Len(d) : d[i].k = key
         IN  SubSeq(d, 1, at - 1) \o <<[k |-> key, v |-> val]>>
                \o SubSeq(d, at + 1, Len(d))
    ELSE Append(d, [k |-> key, v |-> val])

Keys(d) == [i \in 1..Len(d) |-> d[i].k]

----------------------------------------------------------------------------
(* process_recommendations.py, phase 1: process_movie_chunk *)

EmptyMoviesIndex ==
    [all_genres |-> <<>>, all_moods |-> <<>>, all_eras |-> <<>>,
     movies_by_genre |-> <<>>, movies_by_mood |-> <<>>, movies_by_era |-> <<>>,
     movie_lookup |-> <<>>, processed_chunks |-> <<>>]

\* load_state(filepath) or the empty state
LoadOrEmpty(file, empty) == IF file = NoFile THEN empty ELSE file

\* faulty variant: an item is put in a tag's list only when the list is new
RECURSIVE IndexTags_NoAppend(_, _, _, _)
IndexTags_NoAppend(counts, by, tags, item_id) ==
    IF tags = <<>> THEN [counts |-> counts, by |-> by]
    ELSE LET tag == Head(tags)
         IN  IndexTags_NoAppend(Put(counts, tag, GetOr(counts, tag, 0) + 1),
                                Put(by, tag, GetOr(by, tag, <<item_id>>)),
                                Tail(tags), item_id)

\* one pass of a tag loop: count the tag and append the item to its list
RECURSIVE IndexTags(_, _, _, _)
IndexTags(counts, by, tags, item_id) ==
    IF tags = <<>> THEN [counts |-> counts, by |-> by]
    ELSE LET tag == Head(tags)
         IN  IndexTags(Put(counts, tag, GetOr(counts, tag, 0) + 1),
                       Put(by, tag, Append(GetOr(by, tag, <<>>), item_id)),
                       Tail(tags), item_id)

\* the body of the loop over the movies of a chunk
FoldMovie(state, movie) ==
    LET g == IndexTags(state.all_genres, state.movies_by_genre, movie.genre, movie.item_id)
        m == IndexTags(state.all_moods, state.movies_by_mood, movie.mood, movie.item_id)
        e == IndexTags(state.all_eras, state.movies_by_era, <<movie.era>>, movie.item_id)
    IN  [state EXCEPT
            !.all_genres = g.counts, !.movies_by_genre = g.by,
            !.all_moods = m.counts, !.movies_by_mood = m.by,
            !.all_eras = e.counts, !.movies_by_era = e.by,
            !.movie_lookup = Put(state.movie_lookup, movie.item_id,
                                 [genre |-> movie.genre, mood |-> movie.mood,
                                  era |-> movie.era])]

\* for movie in movies: one movie is indexed before the next one is read, and
\* the loop leaves the keys of the index in place
RECURSIVE FoldMovies(_, _)
FoldMovies(state, movies) ==
    IF movies = <<>> THEN state
    ELSE LET folded == FoldMovie(state, Head(movies))
         IN  IF DOMAIN folded = DOMAIN EmptyMoviesIndex
             THEN FoldMovies(folded, Tail(movies))
             ELSE folded

\* process_movie_chunk(chunk_file): the state that is saved
MovieChunkFolded(state, chunk_file) ==
    LET folded == FoldMovies(state, data_movies[chunk_file])
    IN  [folded EXCEPT !.processed_chunks = Append(@, chunk_file)]

----------------------------------------------------------------------------
(* process_recommendations.py, phase 2: process_user_chunk *)

HighRating == 4

EmptyUserStats ==
    [user_segments |-> <<>>, movie_ratings |-> <<>>, segment_preferences |-> <<>>,
     processed_chunks |-> <<>>]

\* "tags": null
NullTags == <<None>>

EmptySegment == [users |-> <<>>, high_rated_movies |-> <<>>]
EmptyPrefs == [genres |-> <<>>, moods |-> <<>>, eras |-> <<>>]
EmptyRating == [total_score |-> 0, count |-> 0, high_count |-> 0]

\* for tag in user_tags: ... ["users"].append(user_id)
RECURSIVE TrackUser(_, _, _)
TrackUser(user_segments, tags, user_id) ==
    IF tags = <<>> THEN user_segments
    ELSE LET seg == GetOr(user_segments, Head(tags), EmptySegment)
         IN  TrackUser(Put(user_segments, Head(tags),
                           [seg EXCEPT !.users = Append(@, user_id)]),
                       Tail(tags), user_id)

\* for tag in user_tags: ... ["high_rated_movies"].append(item_id)
RECURSIVE TrackHighRated(_, _, _)
TrackHighRated(user_segments, tags, item_id) ==
    IF tags = <<>> THEN user_segments
    ELSE LET seg == Get(user_segments, Head(tags))
         IN  TrackHighRated(Put(user_segments, Head(tags),
                                [seg EXCEPT !.high_rated_movies = Append(@, item_id)]),
                            Tail(tags), item_id)

RECURSIVE CountTags(_, _)
CountTags(counts, tags) ==
    IF tags = <<>> THEN counts
    ELSE CountTags(Put(counts, Head(tags), GetOr(counts, Head(tags), 0) + 1), Tail(tags))

\* for tag in user_tags: prefs = segment_preferences.setdefault(tag, ...)
RECURSIVE TrackPreferences(_, _, _)
TrackPreferences(segment_preferences, tags, movie_info) ==
    IF tags = <<>> THEN segment_preferences
    ELSE LET prefs == GetOr(segment_preferences, Head(tags), EmptyPrefs)
             now == [genres |-> CountTags(prefs.genres, movie_info.genre),
                     moods |-> CountTags(prefs.moods, movie_info.mood),
                     eras |-> CountTags(prefs.eras, <<movie_info.era>>)]
         IN  TrackPreferences(Put(segment_preferences, Head(tags), now),
                              Tail(tags), movie_info)

\* faulty variant: every rating is tracked as a high rating of the segments
FoldRating_LowRatedTracked(state, movie_index, user_tags, rating) ==
    LET item_id == rating.item_id
        old == GetOr(state.movie_ratings, item_id, EmptyRating)
        counted == [total_score |-> old.total_score + rating.score,
                    count |-> old.count + 1,
                    high_count |-> IF rating.score >= HighRating
                                   THEN old.high_count + 1 ELSE old.high_count]
    IN  [state EXCEPT !.movie_ratings = Put(@, item_id, counted),
                      !.user_segments = TrackHighRated(@, user_tags, item_id)]

\* the body of the loop over the ratings of a user
FoldRating(state, movie_index, user_tags, rating) ==
    LET item_id == rating.item_id
        old == GetOr(state.movie_ratings, item_id, EmptyRating)
        high == rating.score >= HighRating
        counted == [total_score |-> old.total_score + rating.score,
                    count |-> old.count + 1,
                    high_count |-> IF high THEN old.high_count + 1 ELSE old.high_count]
        s1 == [state EXCEPT !.movie_ratings = Put(@, item_id, counted)]
    IN  IF ~high THEN s1
        ELSE LET s2 == [s1 EXCEPT
                          !.user_segments = TrackHighRated(@, user_tags, item_id)]
             IN  IF Has(movie_index.movie_lookup, item_id)
                 THEN [s2 EXCEPT !.segment_preferences =
                          TrackPreferences(@, user_tags,
                                           Get(movie_index.movie_lookup, item_id))]
                 ELSE s2

\* for rating in user_data["scores"]: one rating is folded before the next one is
\* read, and the loop leaves the four keys of the state in place
RECURSIVE FoldRatings(_, _, _, _)
FoldRatings(state, movie_index, user_tags, scores) ==
    IF scores = <<>> THEN state
    ELSE LET folded == FoldRating(state, movie_index, user_tags, Head(scores))
         IN  IF DOMAIN folded = DOMAIN EmptyUserStats
             THEN FoldRatings(folded, movie_index, user_tags, Tail(scores))
             ELSE folded

\* faulty variant: a user without tags is filed under no segment
UserTags_Unfiled(user_data) ==
    IF user_data.tags = NullTags THEN <<>> ELSE user_data.tags

\* the segments a user is filed under
UserTags(user_data) ==
    LET user_tags == IF user_data.tags = NullTags THEN <<>> ELSE user_data.tags
    IN  IF user_tags = <<>> THEN <<<<"general">>>> ELSE user_tags

\* the body of the loop over the users of a chunk
FoldUser(state, movie_index, user_data) ==
    LET user_tags == UserTags(user_data)
        s1 == [state EXCEPT
                 !.user_segments = TrackUser(@, user_tags, user_data.user_id)]
    IN  FoldRatings(s1, movie_index, user_tags, user_data.scores)

\* for user_data in users: one user is folded before the next one is read
RECURSIVE FoldUsers(_, _, _)
FoldUsers(state, movie_index, users) ==
    IF users = <<>> THEN state
    ELSE LET folded == FoldUser(state, movie_index, Head(users))
         IN  IF DOMAIN folded = DOMAIN EmptyUserStats
             THEN FoldUsers(folded, movie_index, Tail(users))
             ELSE folded

\* process_user_chunk(chunk_file): the state that is saved
UserChunkFolded(state, movie_index, chunk_file) ==
    LET folded == FoldUsers(state, movie_index, data_users[chunk_file])
    IN  [folded EXCEPT !.processed_chunks = Append(@, chunk_file)]

----------------------------------------------------------------------------
(* process_recommendations.py, phase 3: the generate functions *)

TopN == 20
TopKeywords == 3
MinSegmentUsers == 3
MinGenreMovies == 5
MinPopularRatings == 3
MinAcclaimedHigh == 2

Take(s, n) == SubSeq(s, 1, IF Len(s) < n THEN Len(s) ELSE n)

\* sort keys are pairs (a, n/d): x sorts below y
KeyLess(x, y) == x.a < y.a \/ (x.a = y.a /\ x.n * y.d < y.n * x.d)

\* x goes before the first element with a smaller key
InsertDesc(sorted, x) ==
    LET smaller == {i \in 1..Len(sorted) : KeyLess(sorted[i], x)}
        at == IF smaller = {} THEN Len(sorted) + 1
              ELSE CHOOSE i \in smaller : \A j \in smaller : i <= j
    IN  SubSeq(sorted, 1, at - 1) \o <<x>> \o SubSeq(sorted, at, Len(sorted))

\* list.sort(key=..., reverse=True): stable, largest key first
RECURSIVE SortDescFrom(_, _)
SortDescFrom(sorted, rest) ==
    IF rest = <<>> THEN sorted
    ELSE SortDescFrom(InsertDesc(sorted, Head(rest)), Tail(rest))

SortDesc(scored) == SortDescFrom(<<>>, scored)

\* the entries of a dict of counts, as sort entries keyed by the count
CountEntries(counts) ==
    [i \in 1..Len(counts) |-> [item_id |-> counts[i].k, a |-> counts[i].v, n |-> 0, d |-> 1]]

\* faulty variant: the n least common items
MostCommon_Least(items, n) ==
    Take(Reverse(SortDesc(CountEntries(CountTags(<<>>, items)))), n)

\* Counter(items).most_common(n)
MostCommon(items, n) == Take(SortDesc(CountEntries(CountTags(<<>>, items))), n)

\* list(set(keywords)): every keyword once
RECURSIVE Dedupe(_)
Dedupe(s) ==
    IF s = <<>> THEN <<>>
    ELSE LET front == Dedupe(SubSeq(s, 1, Len(s) - 1))
         IN  IF Contains(front, s[Len(s)]) THEN front ELSE Append(front, s[Len(s)])

\* enumerate(top_movies, 1) with the ranks as the loop hands them out
Ranked(top_movies) ==
    [i \in 1..Len(top_movies) |-> [rank |-> i, item_id |-> top_movies[i].item_id]]

Meta(tag, type, description, match_keywords, is_fallback) ==
    [tag |-> tag, type |-> type, description |-> description,
     match_keywords |-> match_keywords, is_fallback |-> is_fallback]

generate_segment_recommendations(segment_tag, segment_data, segment_prefs, movie_index) ==
    LET top_movies == MostCommon(segment_data.high_rated_movies, TopN)
        \* an item that is not in movie_lookup is skipped by "continue"
        recommendations ==
            SelectSeq(Ranked(top_movies),
                      LAMBDA r : Has(movie_index.movie_lookup, r.item_id))
        top_genres == Take(SortDesc(CountEntries(segment_prefs.genres)), TopKeywords)
        top_moods == Take(SortDesc(CountEntries(segment_prefs.moods)), TopKeywords)
        match_keywords ==
            <<segment_tag, replace(segment_tag, "_", " ")>>
                \o [i \in 1..Len(top_genres) |-> lower(top_genres[i].item_id)]
                \o [i \in 1..Len(top_moods) |-> lower(top_moods[i].item_id)]
    IN  [meta |-> Meta(segment_tag, "segment",
                       <<"Movies highly rated by ">> \o segment_tag \o <<" users">>,
                       Dedupe(match_keywords), FALSE),
         recommendations |-> recommendations]

\* the scored_movies of the candidates that have ratings, in candidate order
ScoredMovies(candidates, user_stats_) ==
    LET rated == SelectSeq(candidates, LAMBDA item_id : Has(user_stats_.movie_ratings, item_id))
    IN  [i \in 1..Len(rated) |->
            LET rating_info == Get(user_stats_.movie_ratings, rated[i])
            IN  [item_id |-> rated[i], a |-> rating_info.high_count,
                 n |-> rating_info.total_score, d |-> rating_info.count]]

\* sort by (high_count, avg_rating), keep the top, rank them
TopRanked(candidates, user_stats_) ==
    Ranked(Take(SortDesc(ScoredMovies(candidates, user_stats_)), TopN))

RECURSIVE UnionOfLists(_, _)
UnionOfLists(by, tags) ==
    IF tags = <<>> THEN {}
    ELSE Range(GetOr(by, Head(tags), <<>>)) \cup UnionOfLists(by, Tail(tags))

\* the candidates set of generate_mood_recommendations
MoodCandidates(mood_tags, movie_index) == UnionOfLists(movie_index.movies_by_mood, mood_tags)

\* the orders in which a set may be iterated
IterationOrders(S) ==
    {order \in [1..Cardinality(S) -> S] :
        \A i, j \in 1..Cardinality(S) : i /= j => order[i] /= order[j]}

\* candidates_in_order: the candidates set as "for item_id in candidates" yields it
generate_mood_recommendations(mood_name, mood_tags, candidates_in_order, user_stats_) ==
    [meta |-> Meta(mood_name, "mood",
                   <<"Movies perfect for a ">> \o mood_name \o <<" mood">>,
                   <<mood_name>> \o mood_tags, FALSE),
     recommendations |-> TopRanked(candidates_in_order, user_stats_)]

generate_genre_recommendations(genre, movie_index, user_stats_) ==
    [meta |-> Meta(genre, "genre", <<"Top ">> \o genre \o <<" movies">>,
                   <<lower(genre), genre>>, FALSE),
     recommendations |-> TopRanked(GetOr(movie_index.movies_by_genre, genre, <<>>), user_stats_)]

generate_era_recommendations(era, movie_index, user_stats_) ==
    [meta |-> Meta(era, "era", <<"Top movies from the ">> \o era \o <<" era">>,
                   <<lower(era), era>>, FALSE),
     recommendations |-> TopRanked(GetOr(movie_index.movies_by_era, era, <<>>), user_stats_)]

\* the top_movies of generate_fallback_popular: 3 ratings or more, by average
PopularTop(user_stats_) ==
    LET enough == SelectSeq(user_stats_.movie_ratings,
                            LAMBDA e : e.v.count >= MinPopularRatings)
        scored == [i \in 1..Len(enough) |->
                     [item_id |-> enough[i].k, a |-> 0,
                      n |-> enough[i].v.total_score, d |-> enough[i].v.count]]
    IN  Take(SortDesc(scored), TopN)

\* the top_movies of generate_fallback_acclaimed: 2 high ratings or more
AcclaimedTop(user_stats_) ==
    LET enough == SelectSeq(user_stats_.movie_ratings,
                            LAMBDA e : e.v.high_count >= MinAcclaimedHigh)
        scored == [i \in 1..Len(enough) |->
                     [item_id |-> enough[i].k, a |-> enough[i].v.high_count,
                      n |-> enough[i].v.total_score, d |-> enough[i].v.count]]
    IN  Take(SortDesc(scored), TopN)

\* movie_index["movie_lookup"][item_id] raises KeyError for an unknown item
LookupRaises(top_movies, movie_index) ==
    \E i \in 1..Len(top_movies) : ~Has(movie_index.movie_lookup, top_movies[i].item_id)

POPULAR_DESCRIPTION == <<"Most popular movies - use when no specific match found">>
ACCLAIMED_DESCRIPTION == <<"Most acclaimed movies - use when no specific match found">>
FALLBACK_ACCLAIMED == <<"fallback_", "acclaimed", ".json">>

generate_fallback_popular(user_stats_) ==
    [meta |-> Meta(<<"popular">>, "fallback", POPULAR_DESCRIPTION, <<>>, TRUE),
     recommendations |-> Ranked(PopularTop(user_stats_))]

generate_fallback_acclaimed(user_stats_) ==
    [meta |-> Meta(<<"acclaimed">>, "fallback", ACCLAIMED_DESCRIPTION, <<>>, TRUE),
     recommendations |-> Ranked(AcclaimedTop(user_stats_))]

RECURSIVE SumUsers(_)
SumUsers(user_segments) ==
    IF user_segments = <<>> THEN 0
    ELSE Len(Head(user_segments).v.users) + SumUsers(Tail(user_segments))

\* the index that generate_index saves
generate_index(files, movie_index, user_stats_) ==
    [total_movies_indexed |-> Len(movie_index.movie_lookup),
     total_users_analyzed |-> SumUsers(user_stats_.user_segments),
     total_recommendation_files |-> Len(files),
     segments_found |-> Keys(user_stats_.user_segments),
     genres_found |-> Keys(movie_index.all_genres),
     moods_found |-> Keys(movie_index.all_moods),
     eras_found |-> Keys(movie_index.all_eras),
     files |-> files]

mood_groups ==
    << [k |-> <<"exciting">>,
        v |-> <<<<"Exciting">>, <<"Thrilling">>, <<"Action", "-", "packed">>,
                <<"Revolutionary">>>>],
       [k |-> <<"relaxing">>,
        v |-> <<<<"Charming">>, <<"Romantic">>, <<"Heartwarming">>, <<"Witty">>>>],
       [k |-> <<"intense">>,
        v |-> <<<<"Intense">>, <<"Suspenseful">>, <<"Psychological">>, <<"Serious">>>>],
       [k |-> <<"thoughtful">>,
        v |-> <<<<"Philosophical">>, <<"Mind", "-", "bending">>, <<"Powerful">>>>],
       [k |-> <<"emotional">>,
        v |-> <<<<"Emotional">>, <<"Hopeful">>, <<"Bittersweet">>, <<"Somber">>>>] >>

SegmentFilename(segment_tag) ==
    <<"segment_">> \o lower(replace(segment_tag, " ", "_")) \o <<".json">>
MoodFilename(mood_name) == <<"mood_">> \o mood_name \o <<".json">>
GenreFilename(genre) ==
    <<"genre_">> \o replace(replace(lower(genre), "-", "_"), " ", "_") \o <<".json">>
EraFilename(era) ==
    <<"era_">> \o replace(replace(lower(era), "-", "_"), " ", "_") \o <<".json">>

\* the entry appended to generated_files for a file
FileEntry(filename, reco) ==
    [filename |-> filename, type |-> reco.meta.type, tag |-> reco.meta.tag,
     description |-> reco.meta.description, match_keywords |-> reco.meta.match_keywords,
     item_count |-> Len(reco.recommendations), is_fallback |-> reco.meta.is_fallback]

\* save_json(f"{OUTPUT_DIR}/{filename}", reco): the directory afterwards
Saved(dir, filename, reco) ==
    [f \in DOMAIN dir \cup {filename} |-> IF f = filename THEN reco ELSE dir[f]]

----------------------------------------------------------------------------
(* process_recommendations.py: main() and generate_all_recommendations() *)

LoopPhases == {"movies", "users", "segment", "mood", "genre", "era"}

\* the number of iterations of the loop of a phase
PhaseLen(phase) ==
    CASE phase = "movies"  -> Len(data_movies)
      [] phase = "users"   -> Len(data_users)
      [] phase = "segment" -> Len(user_stats.user_segments)
      [] phase = "mood"    -> Len(mood_groups)
      [] phase = "genre"   -> Len(movies_index.all_genres)
      [] phase = "era"     -> Len(movies_index.all_eras)
      [] OTHER -> 1

\* the statement after the loop (or the call) of a phase
After(phase) ==
    CASE phase = "movies"    -> IF data_users = <<>> THEN "generate" ELSE "users"
      [] phase = "users"     -> "generate"
      [] phase = "generate"  -> "segment"
      [] phase = "segment"   -> "mood"
      [] phase = "mood"      -> "genre"
      [] phase = "genre"     -> "era"
      [] phase = "era"       -> "popular"
      [] phase = "popular"   -> "acclaimed"
      [] phase = "acclaimed" -> "index"
      [] OTHER -> "done"

\* where main() starts: sorted(glob.glob(...)) may find no chunk at all
FirstPhase == IF data_movies = <<>> THEN After("movies") ELSE "movies"

\* control after iteration i of a phase; a loop is left after its last
\* iteration (the loops of the model's data are never empty)
Advance(phase, i) ==
    /\ pc' = IF phase \in LoopPhases /\ i < PhaseLen(phase) THEN phase ELSE After(phase)
    /\ loop_i' = IF phase \in LoopPhases /\ i < PhaseLen(phase) THEN i + 1 ELSE 1

\* an uncaught exception ends the run
Raise ==
    /\ pc' = "raised"
    /\ loop_i' = 1

\* for movie_file in movie_files: process_movie_chunk(movie_file)
ProcessMovieChunk ==
    /\ pc = "movies"
    /\ movies_index' = MovieChunkFolded(LoadOrEmpty(movies_index, EmptyMoviesIndex), loop_i)
    /\ Advance("movies", loop_i)
    /\ UNCHANGED <<data_vars, prime_vars, chat_vars, user_stats, artifact_vars, generated_files, run, first_run, crashes,
                   matcher_vars>>

\* faulty variant: a missing movie index is taken to be an empty one
ProcessUserChunk_IndexDefaulted ==
    /\ pc = "users"
    /\ user_stats' = UserChunkFolded(LoadOrEmpty(user_stats, EmptyUserStats),
                                     LoadOrEmpty(movies_index, EmptyMoviesIndex), loop_i)
    /\ Advance("users", loop_i)
    /\ UNCHANGED <<data_vars, prime_vars, chat_vars, movies_index, artifact_vars, generated_files, run, first_run, crashes,
                   matcher_vars>>

\* for user_file in user_files: process_user_chunk(user_file)
ProcessUserChunk ==
    /\ pc = "users"
    /\ IF movies_index = NoFile
       THEN /\ Raise
            /\ UNCHANGED user_stats
       ELSE /\ user_stats' = UserChunkFolded(LoadOrEmpty(user_stats, EmptyUserStats),
                                             movies_index, loop_i)
            /\ Advance("users", loop_i)
    /\ UNCHANGED <<data_vars, prime_vars, chat_vars, movies_index, artifact_vars, generated_files, run, first_run, crashes,
                   matcher_vars>>

\* generate_all_recommendations(), up to generated_files = []
StartGeneration ==
    /\ pc = "generate"
    /\ IF movies_index = NoFile \/ user_stats = NoFile
       THEN Raise
       ELSE Advance("generate", 1)
    /\ generated_files' = <<>>
    /\ UNCHANGED <<data_vars, prime_vars, chat_vars, state_vars, artifact_vars, run, first_run, crashes, matcher_vars>>

\* save_json of a recommendation file and generated_files.append
Emit(filename, reco) ==
    /\ outdir' = Saved(outdir, filename, reco)
    /\ generated_files' = Append(generated_files, FileEntry(filename, reco))

\* one iteration of the loop over user_stats["user_segments"].items()
GenerateSegment ==
    /\ pc = "segment"
    /\ LET segment_tag == user_stats.user_segments[loop_i].k
           segment_data == user_stats.user_segments[loop_i].v
       IN  IF Len(segment_data.users) < MinSegmentUsers
           THEN UNCHANGED <<outdir, generated_files>>
           ELSE Emit(SegmentFilename(segment_tag),
                     generate_segment_recommendations(
                         segment_tag, segment_data,
                         GetOr(user_stats.segment_preferences, segment_tag, EmptyPrefs),
                         movies_index))
    /\ Advance("segment", loop_i)
    /\ UNCHANGED <<data_vars, prime_vars, chat_vars, state_vars, index_json, run, first_run, crashes, matcher_vars>>

\* one iteration of the loop over mood_groups.items()
GenerateMood ==
    /\ pc = "mood"
    /\ LET mood_name == mood_groups[loop_i].k
           mood_tags == mood_groups[loop_i].v
       IN  \E order \in IterationOrders(MoodCandidates(mood_tags, movies_index)) :
              LET reco == generate_mood_recommendations(mood_name, mood_tags, order,
                                                        user_stats)
              IN  IF Len(reco.recommendations) > 0
                  THEN Emit(MoodFilename(mood_name), reco)
                  ELSE UNCHANGED <<outdir, generated_files>>
    /\ Advance("mood", loop_i)
    /\ UNCHANGED <<data_vars, prime_vars, chat_vars, state_vars, index_json, run, first_run, crashes, matcher_vars>>

\* faulty variant: a genre with few movies is not skipped
GenerateGenre_RareKept ==
    /\ pc = "genre"
    /\ LET genre == movies_index.all_genres[loop_i].k
           reco == generate_genre_recommendations(genre, movies_index, user_stats)
       IN  IF Len(reco.recommendations) > 0
           THEN Emit(GenreFilename(genre), reco)
           ELSE UNCHANGED <<outdir, generated_files>>
    /\ Advance("genre", loop_i)
    /\ UNCHANGED <<data_vars, prime_vars, chat_vars, state_vars, index_json, run, first_run, crashes, matcher_vars>>

\* one iteration of the loop over movie_index["all_genres"].keys()
GenerateGenre ==
    /\ pc = "genre"
    /\ LET genre == movies_index.all_genres[loop_i].k
           reco == generate_genre_recommendations(genre, movies_index, user_stats)
       IN  IF movies_index.all_genres[loop_i].v >= MinGenreMovies
                /\ Len(reco.recommendations) > 0
           THEN Emit(GenreFilename(genre), reco)
           ELSE UNCHANGED <<outdir, generated_files>>
    /\ Advance("genre", loop_i)
    /\ UNCHANGED <<data_vars, prime_vars, chat_vars, state_vars, index_json, run, first_run, crashes, matcher_vars>>

\* one iteration of the loop over movie_index["all_eras"].keys()
GenerateEra ==
    /\ pc = "era"
    /\ LET era == movies_index.all_eras[loop_i].k
           reco == generate_era_recommendations(era, movies_index, user_stats)
       IN  IF Len(reco.recommendations) > 0
           THEN Emit(EraFilename(era), reco)
           ELSE UNCHANGED <<outdir, generated_files>>
    /\ Advance("era", loop_i)
    /\ UNCHANGED <<data_vars, prime_vars, chat_vars, state_vars, index_json, run, first_run, crashes, matcher_vars>>

GenerateFallbackPopular ==
    /\ pc = "popular"
    /\ IF LookupRaises(PopularTop(user_stats), movies_index)
       THEN /\ Raise
            /\ UNCHANGED <<outdir, generated_files>>
       ELSE /\ Emit(FALLBACK_POPULAR, generate_fallback_popular(user_stats))
            /\ Advance("popular", 1)
    /\ UNCHANGED <<data_vars, prime_vars, chat_vars, state_vars, index_json, run, first_run, crashes, matcher_vars>>

GenerateFallbackAcclaimed ==
    /\ pc = "acclaimed"
    /\ IF LookupRaises(AcclaimedTop(user_stats), movies_index)
       THEN /\ Raise
            /\ UNCHANGED <<outdir, generated_files>>
       ELSE /\ Emit(FALLBACK_ACCLAIMED, generate_fallback_acclaimed(user_stats))
            /\ Advance("acclaimed", 1)
    /\ UNCHANGED <<data_vars, prime_vars, chat_vars, state_vars, index_json, run, first_run, crashes, matcher_vars>>

GenerateIndex ==
    /\ pc = "index"
    /\ index_json' = generate_index(generated_files, movies_index, user_stats)
    /\ Advance("index", 1)
    /\ UNCHANGED <<data_vars, prime_vars, chat_vars, state_vars, outdir, generated_files, run, first_run, crashes,
                   matcher_vars>>

\* the pipeline is run once more over the same chunks, from an empty _state/
RunAgainFromEmptyState ==
    /\ pc = "done"
    /\ qpc = "idle"
    /\ run = 1
    /\ run' = 2
    /\ first_run' = outdir
    /\ movies_index' = NoFile
    /\ user_stats' = NoFile
    /\ generated_files' = <<>>
    /\ pc' = "movies"
    /\ loop_i' = 1
    /\ UNCHANGED <<data_vars, prime_vars, chat_vars, artifact_vars, matcher_vars, crashes>>

\* the process dies between two chunk folds or inside one (a fold saves its
\* state file as its last statement, so the chunk in flight leaves no
\* trace), and main() is started again: the _state/ files are as they were
\* left, and main() loops over every chunk file it finds
CrashAndRerun ==
    /\ pc \in {"movies", "users"}
    /\ crashes < MaxCrashes
    /\ crashes' = crashes + 1
    /\ pc' = FirstPhase
    /\ loop_i' = 1
    /\ UNCHANGED <<data_vars, prime_vars, chat_vars, state_vars, artifact_vars, generated_files, run, first_run,
                   matcher_vars>>

----------------------------------------------------------------------------
(* The chunk files of the model *)

\* the movies are 1..MaxMovies (or one fewer), the users 1..MaxUsers
MaxMovies == 5
MaxUsers == 4
\* an item id that no movie chunk holds
UnknownItem == 0

Movie(i) ==
    [item_id |-> i,
     genre |-> IF i % 6 = 0 THEN <<<<"Drama">>>>
               ELSE IF i % 3 = 0 THEN <<<<"Action">>, <<"Sci", "-", "Fi">>>>
               ELSE <<<<"Action">>>>,
     mood |-> CASE i = 1 -> <<<<"Exciting">>>>
                [] i = 2 -> <<<<"Thrilling">>>>
                [] i = 3 -> <<<<"Exciting">>, <<"Philosophical">>>>
                [] i = 4 -> <<<<"Charming">>>>
                [] i = 5 -> <<<<"Somber">>>>
                [] OTHER -> <<<<"Quirky">>>>,
     era |-> CASE i \in {1, 2, 5} -> <<"90s">>
               [] i = 4 -> <<"Classic">>
               [] OTHER -> <<"Modern">>]

\* two movie chunks: movies 1..2 and movies 3..n
MovieChunks(n) == <<[i \in 1..2 |-> Movie(i)], [i \in 1..(n - 2) |-> Movie(i + 2)]>>

Rating(item_id, score) == [item_id |-> item_id, score |-> score]

\* the scores lists of the first three users
ScoreMenu ==
    {<<>>,
     <<Rating(1, 5), Rating(2, 4)>>,
     <<Rating(UnknownItem, 5), Rating(2, 5), Rating(1, 4)>>,
     <<Rating(3, 2), Rating(1, 5)>>}

\* the tag lists of the first three users (one list for the three)
TagMenu ==
    {NullTags, <<<<"gamer">>>>, <<<<"gen", " ", "Z">>, <<"gen", "_", "z">>>>}

\* the tag lists of the other users
OtherTagMenu == {<<>>, <<<<"student">>>>}

User(user_id, tags, scores) == [user_id |-> user_id, tags |-> tags, scores |-> scores]

\* two user chunks: users 1..2 and users 3..MaxUsers
UserChunks(tags, s1, s2, s3, other_tags) ==
    <<<<User(1, tags, s1), User(2, tags, s2)>>,
      <<User(3, tags, s3)>>
         \o [i \in 1..(MaxUsers - 3) |->
                User(i + 3, other_tags, <<Rating(4, 4), Rating(5, 2)>>)]>>

\* the queries run on the artifacts of a finished run
PipeQueries ==
    [segment : {None, <<"gamer">>, <<"gen", "_", "z">>}, mood : {None},
     genre : {None}, era : {None}, query : {None, <<"Action">>}]

InitPipe ==
    /\ \E n \in {MaxMovies - 1, MaxMovies} : data_movies = MovieChunks(n)
    /\ \E tags \in TagMenu, s1 \in ScoreMenu, s2 \in ScoreMenu, s3 \in ScoreMenu,
          other_tags \in OtherTagMenu :
          data_users = UserChunks(tags, s1, s2, s3, other_tags)
    /\ movies_index = NoFile
    /\ user_stats = NoFile
    /\ index_json = NoFile
    /\ outdir = <<>>
    /\ pc = "movies"
    /\ loop_i = 1
    /\ generated_files = <<>>
    /\ run = 1
    /\ first_run = <<>>
    /\ crashes = 0
    /\ MatcherIdle
    /\ PrimeOff
    /\ ChatOff

PipeQuery ==
    /\ pc = "done"
    /\ \E a \in PipeQueries : get_recommendations_semantic(a)
    /\ UNCHANGED first_call

NextPipe ==
    \/ ProcessMovieChunk
    \/ ProcessUserChunk
    \/ StartGeneration
    \/ GenerateSegment
    \/ GenerateMood
    \/ GenerateGenre
    \/ GenerateEra
    \/ GenerateFallbackPopular
    \/ GenerateFallbackAcclaimed
    \/ GenerateIndex
    \/ RunAgainFromEmptyState
    \/ PipeQuery
    \/ QueryDone

SpecPipe == InitPipe /\ [][NextPipe]_vars

\* the user chunks of data/ are replaced by new ones (the same users with other
\* tags or other ratings) and the pipeline is run once more from an empty
\* _state/; shared_recommendations/ is as the first run left it
RefreshAndRunAgain ==
    /\ pc = "done"
    /\ qpc = "idle"
    /\ run = 1
    /\ run' = 2
    /\ first_run' = outdir
    /\ \E tags \in TagMenu, s1 \in ScoreMenu :
          /\ data_users' = UserChunks(tags, s1, <<Rating(1, 5), Rating(2, 4)>>,
                                      <<Rating(3, 2), Rating(1, 5)>>, <<<<"student">>>>)
          /\ data_users' /= data_users
    /\ movies_index' = NoFile
    /\ user_stats' = NoFile
    /\ generated_files' = <<>>
    /\ pc' = "movies"
    /\ loop_i' = 1
    /\ UNCHANGED <<data_movies, data_ratings, prime_vars, chat_vars, artifact_vars, matcher_vars, crashes>>

\* a run of main(), a refresh of the user chunks, and a second run
InitRefresh ==
    /\ data_movies = MovieChunks(MaxMovies)
    /\ \E tags \in TagMenu, s1 \in ScoreMenu :
          data_users = UserChunks(tags, s1, <<Rating(1, 5), Rating(2, 4)>>,
                                  <<Rating(3, 2), Rating(1, 5)>>, <<<<"student">>>>)
    /\ movies_index = NoFile
    /\ user_stats = NoFile
    /\ index_json = NoFile
    /\ outdir = <<>>
    /\ pc = "movies"
    /\ loop_i = 1
    /\ generated_files = <<>>
    /\ run = 1
    /\ first_run = <<>>
    /\ crashes = 0
    /\ MatcherIdle
    /\ PrimeOff
    /\ ChatOff

NextRefresh ==
    \/ ProcessMovieChunk
    \/ ProcessUserChunk
    \/ StartGeneration
    \/ GenerateSegment
    \/ GenerateMood
    \/ GenerateGenre
    \/ GenerateEra
    \/ GenerateFallbackPopular
    \/ GenerateFallbackAcclaimed
    \/ GenerateIndex
    \/ RefreshAndRunAgain

SpecRefresh == InitRefresh /\ [][NextRefresh]_vars

\* a catalogue with more movies of one genre than a file may list
ManyMovies == TopN + 5

\* the movies from..to of the catalogue
MoviesFromTo(from, to) == [i \in 1..(to - from + 1) |-> Movie(from + i - 1)]

\* three movie chunks: two of TopN \div 2 movies and the rest of n movies
LargeMovieChunks(n) ==
    <<MoviesFromTo(1, TopN \div 2), MoviesFromTo(TopN \div 2 + 1, TopN),
      MoviesFromTo(TopN + 1, n)>>

\* ratings of the items from..to: 5, and 3 for every third item
ManyScores(from, to) ==
    [i \in 1..(to - from + 1) |-> Rating(from + i - 1, IF (from + i - 1) % 3 = 1 THEN 3 ELSE 5)]

\* a run of main() over a large catalogue: the first three users, of one
\* segment, rate the items 1..k between them
InitLarge ==
    /\ \E n \in {ManyMovies - 1, ManyMovies} : data_movies = LargeMovieChunks(n)
    /\ \E tags \in {NullTags, <<<<"gamer">>>>}, k \in {TopN, ManyMovies, ManyMovies + 5},
          more \in ScoreMenu, other_tags \in {<<<<"student">>>>, <<<<"gamer">>>>} :
          data_users = UserChunks(tags, ManyScores(1, TopN \div 2),
                                  ManyScores(TopN \div 2 + 1, TopN),
                                  ManyScores(TopN + 1, k) \o more, other_tags)
    /\ movies_index = NoFile
    /\ user_stats = NoFile
    /\ index_json = NoFile
    /\ outdir = <<>>
    /\ pc = "movies"
    /\ loop_i = 1
    /\ generated_files = <<>>
    /\ run = 1
    /\ first_run = <<>>
    /\ crashes = 0
    /\ MatcherIdle
    /\ PrimeOff
    /\ ChatOff

NextLarge ==
    \/ ProcessMovieChunk
    \/ ProcessUserChunk
    \/ StartGeneration
    \/ GenerateSegment
    \/ GenerateMood
    \/ GenerateGenre
    \/ GenerateEra
    \/ GenerateFallbackPopular
    \/ GenerateFallbackAcclaimed
    \/ GenerateIndex

SpecLarge == InitLarge /\ [][NextLarge]_vars

\* segment tags with an underscore, with a space and an upper-case letter,
\* and plain
FacetTagMenu ==
    {<<<<"gamer">>>>, <<<<"gen", "_", "z">>>>, <<<<"gen", " ", "Z">>>>, <<<<"Parent">>>>}

\* a run of main() whose index entries are then each asked for by their facet
InitFacet ==
    /\ data_movies = MovieChunks(MaxMovies)
    /\ \E tags \in FacetTagMenu, s1 \in ScoreMenu, s2 \in ScoreMenu :
          data_users = UserChunks(tags, s1, s2, <<Rating(3, 2), Rating(1, 5)>>,
                                  <<<<"student">>>>)
    /\ movies_index = NoFile
    /\ user_stats = NoFile
    /\ index_json = NoFile
    /\ outdir = <<>>
    /\ pc = "movies"
    /\ loop_i = 1
    /\ generated_files = <<>>
    /\ run = 1
    /\ first_run = <<>>
    /\ crashes = 0
    /\ MatcherIdle
    /\ PrimeOff
    /\ ChatOff

\* the arguments that name one index entry by its type and tag, nothing else
OwnFacetArgs(entry) == [NoArgs EXCEPT ![entry.type] = entry.tag]

\* get_recommendations_semantic is called with the facet of an index entry
OwnFacetQuery ==
    /\ pc = "done"
    /\ index_json /= NoFile
    /\ \E i \in 1..Len(index_json.files) :
          /\ ~index_json.files[i].is_fallback
          /\ get_recommendations_semantic(OwnFacetArgs(index_json.files[i]))
    /\ UNCHANGED first_call

NextFacet ==
    \/ ProcessMovieChunk
    \/ ProcessUserChunk
    \/ StartGeneration
    \/ GenerateSegment
    \/ GenerateMood
    \/ GenerateGenre
    \/ GenerateEra
    \/ GenerateFallbackPopular
    \/ GenerateFallbackAcclaimed
    \/ GenerateIndex
    \/ OwnFacetQuery
    \/ QueryDone

SpecFacet == InitFacet /\ [][NextFacet]_vars

\* runs of main() that may crash and be rerun; data/ may hold no movie chunk
\* or no user chunk
InitRecover ==
    /\ data_movies \in {<<>>, MovieChunks(MaxMovies)}
    /\ \/ data_users = <<>>
       \/ \E tags \in TagMenu, s1 \in ScoreMenu, s2 \in ScoreMenu, other_tags \in OtherTagMenu :
             data_users = UserChunks(tags, s1, s2, <<Rating(3, 2), Rating(1, 5)>>, other_tags)
    /\ movies_index = NoFile
    /\ user_stats = NoFile
    /\ index_json = NoFile
    /\ outdir = <<>>
    /\ pc = FirstPhase
    /\ loop_i = 1
    /\ generated_files = <<>>
    /\ run = 1
    /\ first_run = <<>>
    /\ crashes = 0
    /\ MatcherIdle
    /\ PrimeOff
    /\ ChatOff

NextRecover ==
    \/ ProcessMovieChunk
    \/ ProcessUserChunk
    \/ CrashAndRerun
    \/ StartGeneration
    \/ GenerateSegment
    \/ GenerateMood
    \/ GenerateGenre
    \/ GenerateEra
    \/ GenerateFallbackPopular
    \/ GenerateFallbackAcclaimed
    \/ GenerateIndex

SpecRecover == InitRecover /\ [][NextRecover]_vars

----------------------------------------------------------------------------
(* Claims about the pipeline *)

\* C2 (as claimed): on the artifacts of any completed run, the query with
\* no facet and no free text returns exactly one source, the description of
\* fallback_popular.json, and a result list that is not empty.
C2_ColdStartNotEmpty ==
    (pc = "done" /\ qpc = "returned" /\ args = NoArgs) =>
        /\ sources = <<POPULAR_DESCRIPTION>>
        /\ results /= <<>>

\* C9 (as claimed): in every recommendation file written, the rank values
\* are 1..N in order.
C9_RanksContiguous ==
    \A f \in DOMAIN outdir :
        \A i \in 1..Len(outdir[f].recommendations) :
            outdir[f].recommendations[i].rank = i

\* C10 (as claimed): a second run from empty state over the same chunks
\* leaves the same recommendations array in every generated file.
C10_SecondRunIdentical ==
    (run = 2 /\ pc = "done") =>
        \A f \in DOMAIN outdir :
            /\ f \in DOMAIN first_run
            /\ outdir[f].recommendations = first_run[f].recommendations

\* the movie index after the chunks 1..n are folded once each, in order
RECURSIVE FoldedMovieChunks(_)
FoldedMovieChunks(n) ==
    IF n = 0 THEN EmptyMoviesIndex
    ELSE MovieChunkFolded(FoldedMovieChunks(n - 1), n)

\* the user statistics after the chunks 1..n are folded once each, in order
RECURSIVE FoldedUserChunks(_, _)
FoldedUserChunks(movie_index, n) ==
    IF n = 0 THEN EmptyUserStats
    ELSE UserChunkFolded(FoldedUserChunks(movie_index, n - 1), movie_index, n)

\* C11 (as claimed): whatever crashes and reruns came before, when a run of
\* main() completes the persisted movie index and user statistics are those
\* of an uninterrupted run: every chunk folded exactly once.
C11_CompletedRunFoldsEachChunkOnce ==
    pc = "done" =>
        /\ movies_index = FoldedMovieChunks(Len(data_movies))
        /\ user_stats = FoldedUserChunks(movies_index, Len(data_users))

\* C12: process_user_chunk called while there is no movie index raises and
\* leaves the user statistics as they were, and generate_all_recommendations
\* called while a state file is missing raises and writes no file.
C12_MissingStateFailsCleanly ==
    [][/\ (pc = "users" /\ movies_index = NoFile /\ crashes' = crashes) =>
            (pc' = "raised" /\ user_stats' = user_stats)
       /\ (pc = "generate" /\ (movies_index = NoFile \/ user_stats = NoFile)) =>
            (pc' = "raised" /\ outdir' = outdir /\ index_json' = index_json)]_vars

\* process_user_chunk has raised on a user chunk, and nothing was recorded
C12_Witness ==
    /\ pc = "raised"
    /\ data_users /= <<>>
    /\ movies_index = NoFile
    /\ user_stats = NoFile

\* a count dict and a list dict of the movie index agree: the same tags,
\* each count the length of the tag's list, each listed id a key of lookup
TagIndexAgrees(counts, by, lookup) ==
    /\ Range(Keys(counts)) = Range(Keys(by))
    /\ \A i \in 1..Len(by) :
          /\ Get(counts, by[i].k) = Len(by[i].v)
          /\ \A j \in 1..Len(by[i].v) : Has(lookup, by[i].v[j])

\* C13: in the persisted movie index, every id of a movies_by_genre,
\* movies_by_mood or movies_by_era list is a key of movie_lookup, and the
\* count of a tag in all_genres, all_moods, all_eras is the length of its list.
C13_MovieIndexAgrees ==
    movies_index /= NoFile =>
        /\ TagIndexAgrees(movies_index.all_genres, movies_index.movies_by_genre,
                          movies_index.movie_lookup)
        /\ TagIndexAgrees(movies_index.all_moods, movies_index.movies_by_mood,
                          movies_index.movie_lookup)
        /\ TagIndexAgrees(movies_index.all_eras, movies_index.movies_by_era,
                          movies_index.movie_lookup)

\* every chunk is folded, one of them twice
C13_Witness ==
    /\ movies_index /= NoFile
    /\ Len(movies_index.processed_chunks) > Len(data_movies)
    /\ Range(movies_index.processed_chunks) = 1..Len(data_movies)

\* the users of the chunks folded so far
FoldedUsers ==
    UNION {Range(data_users[c]) : c \in Range(user_stats.processed_chunks)}

\* the segments whose users list holds the user
SegmentsOf(user_id) ==
    {user_stats.user_segments[i].k :
        i \in {n \in 1..Len(user_stats.user_segments) :
                  Contains(user_stats.user_segments[n].v.users, user_id)}}

\* C14: every folded user is in the users list of some segment, and a user
\* whose tags are null (or absent) or empty is in "general" and nowhere else.
C14_EveryUserFiled ==
    user_stats /= NoFile =>
        \A u \in FoldedUsers :
            /\ SegmentsOf(u.user_id) /= {}
            /\ u.tags \in {NullTags, <<>>} => SegmentsOf(u.user_id) = {<<"general">>}

\* a user with null tags and a user with an empty tag list have been folded
C14_Witness ==
    /\ user_stats /= NoFile
    /\ \E u \in FoldedUsers, v \in FoldedUsers : u.tags = NullTags /\ v.tags = <<>>

\* C15 (as claimed): when generation has completed, every entry of the master
\* index names a file of the output directory whose recommendation count,
\* meta.type and meta.tag are the entry's item_count, type and tag, and
\* total_recommendation_files is the number of entries.
C15_IndexListsWrittenFiles ==
    (pc = "done" /\ index_json /= NoFile) =>
        /\ index_json.total_recommendation_files = Len(index_json.files)
        /\ FALLBACK_POPULAR \in DOMAIN outdir
        /\ \A i \in 1..Len(index_json.files) :
              LET e == index_json.files[i]
              IN  /\ e.filename \in DOMAIN outdir
                  /\ e.item_count = Len(outdir[e.filename].recommendations)
                  /\ e.type = outdir[e.filename].meta.type
                  /\ e.tag = outdir[e.filename].meta.tag

\* C16: no call of the matcher changes the master index or a recommendation
\* file, and a call gives what the first call with the same arguments gave,
\* whatever calls came in between.
C16_QueriesReadOnly ==
    /\ [][index_json' = index_json /\ outdir' = outdir]_vars
    /\ [](first_call /= NoCall /\ qpc /= "idle" /\ args = first_call.args =>
             /\ qpc = first_call.outcome
             /\ results = first_call.results
             /\ sources = first_call.sources)

\* the arguments of the first call are used again after two other calls, and
\* recommendations come back
C16_Witness ==
    /\ qpc = "returned"
    /\ first_call /= NoCall
    /\ first_call.later >= 2
    /\ args = first_call.args
    /\ results /= <<>>

----------------------------------------------------------------------------
(* Floating point.  The ratings and their sums, squares and products are    *)
(* integers; a true division, a subtraction from it, a square root give a   *)
(* float.  A float is m * 2^e with FloatBits bits of mantissa               *)
(* (2^(FloatBits-1) <= |m| < 2^FloatBits), or zero, and every operation     *)
(* rounds its exact result to the nearest float, ties to the even mantissa, *)
(* as IEEE 754 does with 53 bits.                                           *)

FloatBits == 11

Zero == [m |-> 0, e |-> 0]

\* the least k >= 0 with a / (d * 2^k) below 2^FloatBits
RECURSIVE ExpUp(_, _, _)
ExpUp(a, d, k) ==
    IF a \div (d * 2^k) >= 2^FloatBits THEN ExpUp(a, d, k + 1) ELSE k

\* the least j >= 0 with (a * 2^j) / d at least 2^(FloatBits-1)
RECURSIVE ExpDown(_, _, _)
ExpDown(a, d, j) ==
    IF (a * 2^j) \div d < 2^(FloatBits - 1) THEN ExpDown(a, d, j + 1) ELSE j

\* the float nearest to (n / d) * 2^e0, for integers n and d > 0
Round(n, d, e0) ==
    IF n = 0 THEN Zero
    ELSE LET a == IF n < 0 THEN -n ELSE n
             up == ExpUp(a, d, 0)
             down == IF up = 0 THEN ExpDown(a, d, 0) ELSE 0
             num == a * 2^down
             den == d * 2^up
             q == num \div den
             r == num % den
             q1 == IF 2 * r > den \/ (2 * r = den /\ q % 2 = 1) THEN q + 1 ELSE q
             carry == IF q1 = 2^FloatBits THEN 1 ELSE 0
             mant == IF carry = 1 THEN 2^(FloatBits - 1) ELSE q1
         IN  [m |-> IF n < 0 THEN -mant ELSE mant, e |-> up - down + carry + e0]

\* a / b for integers a, b (Python's true division)
FDivInt(a, b) == Round(a, b, 0)

\* k - f for an integer k and a float f
FSubInt(k, f) ==
    IF f.e >= 0 THEN Round(k - f.m * 2^f.e, 1, 0)
    ELSE Round(k * 2^(-f.e) - f.m, 1, f.e)

\* k * f for an integer k and a float f
FMulInt(k, f) == Round(k * f.m, 1, f.e)

FMul(f, g) == Round(f.m * g.m, 1, f.e + g.e)

\* f / g, g not zero
FDiv(f, g) ==
    IF g.m < 0 THEN Round(-f.m, -g.m, f.e - g.e) ELSE Round(f.m, g.m, f.e - g.e)

\* the integer square root of x, between lo and hi (lo^2 <= x < hi^2)
RECURSIVE ISqrtIn(_, _, _)
ISqrtIn(x, lo, hi) ==
    IF hi - lo <= 1 THEN lo
    ELSE LET mid == (lo + hi) \div 2
         IN  IF mid * mid <= x THEN ISqrtIn(x, mid, hi) ELSE ISqrtIn(x, lo, mid)

\* np.sqrt(f), f > 0: the root of the mantissa, taken with FloatBits + 2 bits
\* or more and a sticky bit, then rounded
FSqrt(f) ==
    LET odd == f.e % 2 /= 0
        m1 == IF odd THEN 2 * f.m ELSE f.m
        e1 == IF odd THEN f.e - 1 ELSE f.e
        t == (FloatBits + 4) \div 2
        x == m1 * 4^t
        root == ISqrtIn(x, 0, 2^15)
        sticky == IF root * root = x THEN 0 ELSE 1
    IN  Round(2 * root + sticky, 2, (e1 \div 2) - t)

\* f < g
FLess(f, g) ==
    CASE f.m = 0 -> g.m > 0
      [] g.m = 0 -> f.m < 0
      [] f.m < 0 /\ g.m > 0 -> TRUE
      [] f.m > 0 /\ g.m < 0 -> FALSE
      [] f.m > 0 /\ g.m > 0 -> f.e < g.e \/ (f.e = g.e /\ f.m < g.m)
      [] OTHER -> f.e > g.e \/ (f.e = g.e /\ f.m < g.m)

\* f + g
FAdd(f, g) ==
    IF f.m = 0 THEN g
    ELSE IF g.m = 0 THEN f
    ELSE LET lo == IF f.e < g.e THEN f.e ELSE g.e
         IN  Round(f.m * 2^(f.e - lo) + g.m * 2^(g.e - lo), 1, lo)

FAbs(f) == [f EXCEPT !.m = IF @ < 0 THEN -@ ELSE @]

One == Round(1, 1, 0)

----------------------------------------------------------------------------
(* prime/compute_scores.py *)

\* a dataset is a dict user -> (dict item -> rating), in the order of the file
\* np.sum of a list of integers
RECURSIVE NpSum(_)
NpSum(xs) == IF xs = <<>> THEN 0 ELSE Head(xs) + NpSum(Tail(xs))

\* [F(item) for item in items]
ListOf(items, F(_)) == [i \in 1..Len(items) |-> F(items[i])]

\* faulty variant: only user1 is looked for before the ratings are read
pearson_score_User2Unchecked(dataset, user1, user2) ==
    IF ~Has(dataset, user1) THEN [outcome |-> "TypeError", value |-> Zero]
    ELSE IF ~Has(dataset, user2) THEN [outcome |-> "KeyError", value |-> Zero]
    ELSE [outcome |-> "returned", value |-> Zero]

\* pearson_score(dataset, user1, user2): how the call ends and what it returns
pearson_score(dataset, user1, user2) ==
    IF ~Has(dataset, user1) \/ ~Has(dataset, user2)
    THEN [outcome |-> "TypeError", value |-> Zero]
    ELSE LET r1 == Get(dataset, user1)
             r2 == Get(dataset, user2)
             common_movies == SelectSeq(Keys(r1), LAMBDA item : Has(r2, item))
             num_ratings == Len(common_movies)
             user1_sum == NpSum(ListOf(common_movies, LAMBDA item : Get(r1, item)))
             user2_sum == NpSum(ListOf(common_movies, LAMBDA item : Get(r2, item)))
             user1_squared_sum ==
                 NpSum(ListOf(common_movies, LAMBDA item : Get(r1, item) * Get(r1, item)))
             user2_squared_sum ==
                 NpSum(ListOf(common_movies, LAMBDA item : Get(r2, item) * Get(r2, item)))
             sum_of_products ==
                 NpSum(ListOf(common_movies, LAMBDA item : Get(r1, item) * Get(r2, item)))
             Sxy == FSubInt(sum_of_products, FDivInt(user1_sum * user2_sum, num_ratings))
             Sxx == FSubInt(user1_squared_sum, FDivInt(user1_sum * user1_sum, num_ratings))
             Syy == FSubInt(user2_squared_sum, FDivInt(user2_sum * user2_sum, num_ratings))
             product == FMul(Sxx, Syy)
         IN  [outcome |-> "returned",
              value |-> IF num_ratings = 0 THEN Zero
                        ELSE IF product = Zero THEN Zero
                        ELSE FDiv(Sxy, FSqrt(product))]

----------------------------------------------------------------------------
(* prime/collaborative_filtering.py *)

\* np.array([[x, score], ...]) of a name and a number is an array of
\* strings, and argsort compares the strings: a negative number is below
\* every other, two negative numbers are ordered by magnitude, the others
\* by value (numbers with one digit before the point, no exponent)
StrLess(f, g) ==
    CASE f.m < 0 /\ g.m >= 0 -> TRUE
      [] f.m >= 0 /\ g.m < 0 -> FALSE
      [] f.m < 0 /\ g.m < 0 -> FLess(FAbs(f), FAbs(g))
      [] OTHER -> FLess(f, g)

\* np.argsort(...) of the score column: ascending, equal scores in their order
RECURSIVE InsertByScore(_, _)
InsertByScore(sorted, x) ==
    IF sorted = <<>> THEN <<x>>
    ELSE IF StrLess(x.score, Head(sorted).score)
         THEN <<x>> \o sorted
         ELSE <<Head(sorted)>> \o InsertByScore(Tail(sorted), x)

RECURSIVE ArgSorted(_, _)
ArgSorted(sorted, rest) ==
    IF rest = <<>> THEN sorted
    ELSE ArgSorted(InsertByScore(sorted, Head(rest)), Tail(rest))

\* rows[np.argsort(rows[:, score])[::-1]]
SortedDecreasing(rows) == Reverse(ArgSorted(<<>>, rows))

\* find_similar_users(dataset, user, num_users)
find_similar_users(dataset, user, num_users) ==
    IF ~Has(dataset, user) THEN [outcome |-> "TypeError", value |-> <<>>]
    ELSE LET others == SelectSeq(Keys(dataset), LAMBDA x : x /= user)
             scores == [i \in 1..Len(others) |->
                          [user |-> others[i],
                           score |-> pearson_score(dataset, user, others[i]).value]]
         IN  IF scores = <<>>
             THEN \* np.array([]) has one dimension: scores[:, 1] raises
                  [outcome |-> "IndexError", value |-> <<>>]
             ELSE [outcome |-> "returned",
                   value |-> Take(SortedDecreasing(scores), num_users)]

----------------------------------------------------------------------------
(* prime/movie_recommender_prime.py *)

NO_RECOMMENDATIONS == <<"No recommendations possible">>

\* filtered_list of a similar user: its items the input user has not rated,
\* or has rated 0
FilteredList(dataset, input_user, user) ==
    SelectSeq(Keys(Get(dataset, user)),
              LAMBDA x : \/ ~Has(Get(dataset, input_user), x)
                         \/ Get(Get(dataset, input_user), x) = 0)

\* for item in filtered_list: the two dict.update calls
RECURSIVE UpdateScores(_, _, _, _)
UpdateScores(acc, items, ratings, similarity_score) ==
    IF items = <<>> THEN acc
    ELSE LET item == Head(items)
         IN  UpdateScores(
                 [overall_scores |->
                      Put(acc.overall_scores, item,
                          FMulInt(Get(ratings, item), similarity_score)),
                  similarity_scores |->
                      Put(acc.similarity_scores, item, similarity_score)],
                 Tail(items), ratings, similarity_score)

\* for user_data in similar_users
RECURSIVE ScoreSimilarUsers(_, _, _, _)
ScoreSimilarUsers(acc, similar_users, dataset, input_user) ==
    IF similar_users = <<>> THEN acc
    ELSE LET user == Head(similar_users).user
             similarity_score == Head(similar_users).score
         IN  ScoreSimilarUsers(
                 IF ~FLess(Zero, similarity_score) THEN acc
                 ELSE UpdateScores(acc, FilteredList(dataset, input_user, user),
                                   Get(dataset, user), similarity_score),
                 Tail(similar_users), dataset, input_user)

\* movie_scores, sorted: the score of an item divided by its similarity
MovieScores(overall_scores, similarity_scores) ==
    SortedDecreasing(
        [i \in 1..Len(overall_scores) |->
            [item |-> overall_scores[i].k,
             score |-> FDiv(overall_scores[i].v,
                            Get(similarity_scores, overall_scores[i].k))]])

\* from "if len(overall_scores) == 0" to the return
Recommended(similar_users, acc) ==
    IF Len(acc.overall_scores) = 0
    THEN [outcome |-> "returned", value |-> NO_RECOMMENDATIONS,
          movie_scores |-> <<>>, similar_users |-> similar_users]
    ELSE LET movie_scores == MovieScores(acc.overall_scores, acc.similarity_scores)
         IN  [outcome |-> "returned",
              value |-> [i \in 1..Len(movie_scores) |-> movie_scores[i].item],
              movie_scores |-> movie_scores, similar_users |-> similar_users]

\* from the return of find_similar_users on; its exception is not caught
AfterFindSimilarUsers(similar, dataset, input_user) ==
    IF similar.outcome /= "returned"
    THEN [outcome |-> similar.outcome, value |-> <<>>, movie_scores |-> <<>>,
          similar_users |-> <<>>]
    ELSE Recommended(similar.value,
                     ScoreSimilarUsers([overall_scores |-> <<>>, similarity_scores |-> <<>>],
                                       similar.value, dataset, input_user))

\* get_recommendations(dataset, input_user), num_similar_users left out:
\* how the call ends, what it returns, and its locals
get_recommendations(dataset, input_user) ==
    IF ~Has(dataset, input_user)
    THEN [outcome |-> "TypeError", value |-> <<>>, movie_scores |-> <<>>,
          similar_users |-> <<>>]
    ELSE AfterFindSimilarUsers(find_similar_users(dataset, input_user, Len(dataset) - 1),
                               dataset, input_user)

----------------------------------------------------------------------------
(* Calls into prime on a ratings file *)

RatingsOf(pairs) == [i \in 1..Len(pairs) |-> [k |-> pairs[i][1], v |-> pairs[i][2]]]

\* the ratings a user of the model may have (item, rating), in file order
RatingsMenu ==
    {RatingsOf(<< <<1, 1>>, <<2, 1>>, <<3, 2>> >>),
     RatingsOf(<< <<1, 2>>, <<2, 2>>, <<3, 1>> >>),
     RatingsOf(<< <<1, 3>>, <<2, 3>>, <<3, 3>> >>),
     RatingsOf(<< <<4, 2>> >>),
     RatingsOf(<< <<3, 3>>, <<1, 1>>, <<2, 1>>, <<4, 3>> >>),
     RatingsOf(<< <<1, 1>>, <<2, 2>>, <<3, 3>>, <<4, 1>>, <<5, 2>> >>),
     RatingsOf(<< <<1, 1>>, <<2, 1>>, <<3, 2>>, <<4, 0>> >>)}

PrimeUsers == <<"A", "B", "C">>

\* a user the ratings file does not hold
AbsentUser == "Z"

UserArgs == Range(PrimeUsers) \cup {AbsentUser}

\* the ratings files: no user, or the first one, two or three users
Datasets ==
    {<<>>} \cup
    UNION {{[i \in 1..n |-> [k |-> PrimeUsers[i], v |-> choice[i]]] :
               choice \in [1..n -> RatingsMenu]} : n \in 1..Len(PrimeUsers)}

InitPrime ==
    /\ PipelineOff
    /\ index_json = NoFile
    /\ outdir = <<>>
    /\ MatcherIdle
    /\ data_ratings \in Datasets
    /\ prime_call = [fn |-> "none"]
    /\ ChatOff

others_unchanged == <<data_movies, data_users, data_ratings, chat_vars, state_vars, artifact_vars,
                      main_vars, matcher_vars>>

CallPearsonScore ==
    /\ prime_call.fn = "none"
    /\ \E user1 \in UserArgs, user2 \in UserArgs :
          prime_call' = [fn |-> "pearson_score", user1 |-> user1, user2 |-> user2,
                         ret |-> pearson_score(data_ratings, user1, user2)]
    /\ UNCHANGED others_unchanged

CallFindSimilarUsers ==
    /\ prime_call.fn = "none"
    /\ \E user \in UserArgs, num_users \in 1..Len(PrimeUsers) :
          prime_call' = [fn |-> "find_similar_users", user |-> user, num_users |-> num_users,
                         ret |-> find_similar_users(data_ratings, user, num_users)]
    /\ UNCHANGED others_unchanged

CallGetRecommendations ==
    /\ prime_call.fn = "none"
    /\ \E user \in UserArgs :
          prime_call' = [fn |-> "get_recommendations", user |-> user,
                         ret |-> get_recommendations(data_ratings, user)]
    /\ UNCHANGED others_unchanged

\* the caller has the value (or the exception)
PrimeCallDone ==
    /\ prime_call.fn /= "none"
    /\ prime_call' = [fn |-> "none"]
    /\ UNCHANGED others_unchanged

NextPrime ==
    \/ CallPearsonScore
    \/ CallFindSimilarUsers
    \/ CallGetRecommendations
    \/ PrimeCallDone

SpecPrime == InitPrime /\ [][NextPrime]_vars

----------------------------------------------------------------------------
(* Claims about prime *)

PearsonReturned ==
    /\ prime_call.fn = "pearson_score"
    /\ prime_call.ret.outcome = "returned"

\* the items both users of the call have rated, and their ratings
CommonItems ==
    {x \in Range(Keys(Get(data_ratings, prime_call.user1))) :
        Has(Get(data_ratings, prime_call.user2), x)}

ZeroVariance(user) ==
    \A x \in CommonItems, y \in CommonItems :
        Get(Get(data_ratings, user), x) = Get(Get(data_ratings, user), y)

\* C17 (as claimed): pearson_score(A, B) is pearson_score(B, A), lies in
\* [-1, 1], and is 0 when A and B share no item or when the ratings of one of
\* them over the shared items are all equal.
C17_PearsonSymmetricInRange ==
    PearsonReturned =>
        LET score == prime_call.ret.value
        IN  /\ score = pearson_score(data_ratings, prime_call.user2, prime_call.user1).value
            /\ ~FLess(One, FAbs(score))
            /\ (CommonItems = {} \/ ZeroVariance(prime_call.user1)
                    \/ ZeroVariance(prime_call.user2)) => score = Zero

\* the user ids a call was given
CallUsers ==
    CASE prime_call.fn = "pearson_score" -> {prime_call.user1, prime_call.user2}
      [] prime_call.fn \in {"find_similar_users", "get_recommendations"} -> {prime_call.user}
      [] OTHER -> {}

\* C18: a call of pearson_score, find_similar_users or get_recommendations
\* with a user id that is not in the dataset raises TypeError and gives no
\* result.
C18_AbsentUserRaisesTypeError ==
    (\E user \in CallUsers : ~Has(data_ratings, user)) =>
        /\ prime_call.ret.outcome = "TypeError"
        /\ prime_call.ret.value \in {Zero, <<>>}

\* pearson_score was called with a user of the dataset and one that is not
C18_Witness ==
    /\ prime_call.fn = "pearson_score"
    /\ Has(data_ratings, prime_call.user1)
    /\ ~Has(data_ratings, prime_call.user2)
    /\ prime_call.ret.outcome = "TypeError"

\* the returned list is the sentinel list (item ids and the sentinel text are
\* values of different kinds, so the lists are compared as printed)
IsNoRecommendations(value) == ToString(value) = ToString(NO_RECOMMENDATIONS)

RecommendationsReturned ==
    /\ prime_call.fn = "get_recommendations"
    /\ prime_call.ret.outcome = "returned"
    /\ ~IsNoRecommendations(prime_call.ret.value)

\* the similar users with a similarity above 0 that rated the item
Contributors(item) ==
    SelectSeq(prime_call.ret.similar_users,
              LAMBDA n : FLess(Zero, n.score) /\ Has(Get(data_ratings, n.user), item))

RECURSIVE WeightedSum(_, _)
WeightedSum(neighbours, item) ==
    IF neighbours = <<>> THEN Zero
    ELSE FAdd(WeightedSum(SubSeq(neighbours, 1, Len(neighbours) - 1), item),
              FMulInt(Get(Get(data_ratings, neighbours[Len(neighbours)].user), item),
                      neighbours[Len(neighbours)].score))

RECURSIVE SimilaritySum(_)
SimilaritySum(neighbours) ==
    IF neighbours = <<>> THEN Zero
    ELSE FAdd(SimilaritySum(SubSeq(neighbours, 1, Len(neighbours) - 1)), neighbours[Len(neighbours)].score)

\* C19 (as claimed): the rank score of a recommended item is the sum of
\* similarity times rating over the neighbours with similarity above 0 that
\* rated it, divided by the sum of their similarities, and the items are
\* returned in descending order of that score.
C19_ScoreIsWeightedAverage ==
    RecommendationsReturned =>
        LET movie_scores == prime_call.ret.movie_scores
        IN  /\ \A i \in 1..Len(movie_scores) :
                  movie_scores[i].score =
                      FDiv(WeightedSum(Contributors(movie_scores[i].item),
                                       movie_scores[i].item),
                           SimilaritySum(Contributors(movie_scores[i].item)))
            /\ \A i \in 1..Len(movie_scores), j \in 1..Len(movie_scores) :
                  i < j => ~FLess(movie_scores[i].score, movie_scores[j].score)

\* the items the input user has not rated, or rated 0, that some other user
\* with a similarity above 0 has rated
Candidates ==
    LET mine == Get(data_ratings, prime_call.user)
    IN  {x \in UNION {Range(Keys(data_ratings[i].v)) : i \in 1..Len(data_ratings)} :
            /\ ~Has(mine, x) \/ Get(mine, x) = 0
            /\ \E i \in 1..Len(data_ratings) :
                  /\ data_ratings[i].k /= prime_call.user
                  /\ Has(data_ratings[i].v, x)
                  /\ FLess(Zero, pearson_score(data_ratings, prime_call.user,
                                               data_ratings[i].k).value)}

\* C20 (as claimed): get_recommendations for a user of the dataset returns
\* only items the user has not rated (or rated 0) that a neighbour with
\* similarity above 0 has rated, and returns exactly the sentinel list when
\* there is no such item.
C20_OnlyUnratedFromPositiveNeighbours ==
    (prime_call.fn = "get_recommendations" /\ Has(data_ratings, prime_call.user)) =>
        /\ prime_call.ret.outcome = "returned"
        /\ IF Candidates = {}
           THEN IsNoRecommendations(prime_call.ret.value)
           ELSE Range(prime_call.ret.value) \subseteq Candidates

----------------------------------------------------------------------------
(* interactive_recommender.py: LLMParser *)

AVAILABLE_SEGMENTS ==
    <<<<"general">>, <<"gamer">>, <<"parent">>, <<"student">>, <<"boomer">>, <<"female">>,
      <<"gen", " ", "z">>, <<"male">>, <<"millennial">>>>
AVAILABLE_MOODS ==
    <<<<"exciting">>, <<"relaxing">>, <<"intense">>, <<"thoughtful">>, <<"emotional">>>>
AVAILABLE_GENRES ==
    <<<<"Thriller">>, <<"Mystery">>, <<"Romance">>, <<"Crime">>, <<"Drama">>, <<"Biography">>,
      <<"Sport">>, <<"Comedy">>, <<"History">>, <<"Action">>, <<"Adventure">>,
      <<"Sci", "-", "Fi">>, <<"War">>, <<"Music">>, <<"Western">>, <<"Horror">>,
      <<"Fantasy">>, <<"Animation">>>>
AVAILABLE_ERAS ==
    <<<<"Classic">>, <<"80s">>, <<"90s">>, <<"Modern">>, <<"2000s">>, <<"60s", "-", "70s">>,
      <<"80s", "-", "90s">>>>

\* the separators of combined values, each one token of a string
SEPARATORS == <<"/", ",", " and ", " or ">>

\* new_parts: every part split at sep
RECURSIVE SplitParts(_, _)
SplitParts(parts, sep) ==
    IF parts = <<>> THEN <<>> ELSE split(Head(parts), sep) \o SplitParts(Tail(parts), sep)

RECURSIVE SplitAtEach(_, _)
SplitAtEach(parts, seps) ==
    IF seps = <<>> THEN parts ELSE SplitAtEach(SplitParts(parts, Head(seps)), Tail(seps))

\* for part in parts: for opt in valid_options: ... matched.append(opt)
RECURSIVE MatchParts(_, _, _)
MatchParts(parts, valid_options, matched) ==
    IF parts = <<>> THEN matched
    ELSE MatchParts(Tail(parts), valid_options,
                    matched \o SelectSeq(valid_options,
                                   LAMBDA opt : /\ lower(Head(parts)) = lower(opt)
                                                /\ ~Contains(matched, opt)))

\* opt in value, for strings of whole tokens
IsSubstring(opt, value) ==
    \E i \in 1..Len(value) : i + Len(opt) - 1 <= Len(value)
                             /\ SubSeq(value, i, i + Len(opt) - 1) = opt

\* _normalize_values(value, valid_options)
normalize_values(value, valid_options) ==
    IF ~Truthy(value) THEN <<>>
    ELSE LET exact == SelectSeq(valid_options, LAMBDA opt : lower(value) = lower(opt))
             split_parts == SplitAtEach(<<value>>, SEPARATORS)
             stripped == [i \in 1..Len(split_parts) |-> strip(split_parts[i])]
             parts == SelectSeq(stripped, LAMBDA part : part /= <<>>)
             matched == MatchParts(parts, valid_options, <<>>)
         IN  IF exact /= <<>> THEN <<exact[1]>>
             ELSE IF matched /= <<>> THEN matched
             ELSE SelectSeq(valid_options, LAMBDA opt : IsSubstring(lower(opt), lower(value)))

\* ','.join(values)
RECURSIVE join(_)
join(values) ==
    IF Len(values) = 1 THEN values[1]
    ELSE values[1] \o <<",">> \o join(Tail(values))

FACETS == <<"segment", "mood", "genre", "era">>

OptionsOf(key) ==
    CASE key = "segment" -> AVAILABLE_SEGMENTS
      [] key = "mood"    -> AVAILABLE_MOODS
      [] key = "genre"   -> AVAILABLE_GENRES
      [] key = "era"     -> AVAILABLE_ERAS

\* the dict {'segment': None, 'mood': None, 'genre': None, 'era': None}
NoPreferences == [i \in 1..Len(FACETS) |-> [k |-> FACETS[i], v |-> None]]

\* faulty variant: a value that matches no option is kept as the model gave it
normalize_preferences_RawKept(result) ==
    [i \in 1..Len(FACETS) |-> [k |-> FACETS[i], v |-> result[FACETS[i]]]]

\* _normalize_preferences(parsed): the four facets of the dict
normalize_preferences(result) ==
    [i \in 1..Len(FACETS) |->
        LET values == normalize_values(result[FACETS[i]], OptionsOf(FACETS[i]))
        IN  [k |-> FACETS[i], v |-> IF values /= <<>> THEN join(values) ELSE None]]

\* the chain raised instead of returning a dict
ChainRaised == [raised |-> TRUE]

\* parse_preferences(user_input, round_num, full_conversation), given what the
\* extraction chain did
parse_preferences(result) ==
    IF result = ChainRaised THEN NoPreferences ELSE normalize_preferences(result)

----------------------------------------------------------------------------
(* interactive_recommender.py: DiscoveryQuestions *)

\* Config.min_rounds when config.json does not set it
MinRounds == 3

\* the loop of ask_questions is followed for at most MaxTurns inputs
MaxTurns == 5

EXIT_WORDS ==
    {<<"done">>, <<"skip">>, <<"that's", " ", "it">>, <<"bye">>, <<"goodbye">>, <<"quit">>,
     <<"exit">>, <<"stop">>}

\* what the user may type at "You: "
UserInputs == {<<>>, <<" ">>, <<"Done">>, <<"long", " ", "day">>}

\* what the extraction chain may give: a dict of raw values, or an exception
ChainResults ==
    [segment : {None, <<"Gamer">>},
     mood : {None, <<>>, <<"EXCITING">>},
     genre : {None, <<"Action", "/", "Drama">>, <<"Drama">>, <<"zzz">>},
     era : {None}]
    \cup {ChainRaised}

\* what the user may type when asked whether to go on
OfferAnswers == {<<"rec">>, <<"Chat">>, <<"N">>, <<"zzz">>}

\* faulty variant: a facet that the turn did not infer is cleared
Merged_Replaced(prefs, parsed_) ==
    [i \in 1..Len(prefs) |-> [k |-> prefs[i].k, v |-> Get(parsed_, prefs[i].k)]]

\* for key in [...]: if parsed.get(key): self.preferences[key] = parsed[key]
Merged(prefs, parsed_) ==
    [i \in 1..Len(prefs) |->
        [k |-> prefs[i].k,
         v |-> IF Truthy(Get(parsed_, prefs[i].k)) THEN Get(parsed_, prefs[i].k)
               ELSE prefs[i].v]]

chat_others_unchanged ==
    <<data_vars, prime_vars, state_vars, artifact_vars, main_vars, matcher_vars>>

\* DiscoveryQuestions(parser, config)
InitChat ==
    /\ PipelineOff
    /\ index_json = NoFile
    /\ outdir = <<>>
    /\ MatcherIdle
    /\ PrimeOff
    /\ dq_pc = "constructed"
    /\ round_num = 0
    /\ preferences = <<>>
    /\ parsed = <<>>
    /\ replies = 0

\* ask_questions(), up to the first "You: "
AskQuestions ==
    /\ dq_pc = "constructed"
    /\ preferences' = NoPreferences
    /\ dq_pc' = "input"
    /\ UNCHANGED <<round_num, parsed, replies, chat_others_unchanged>>

\* an iteration whose input is empty after strip(): continue
EmptyInput ==
    /\ dq_pc = "input"
    /\ round_num < MaxTurns
    /\ \E typed \in UserInputs : strip(typed) = <<>>
    /\ round_num' = round_num + 1
    /\ UNCHANGED <<dq_pc, preferences, parsed, replies, chat_others_unchanged>>

\* an iteration whose input is one of the words that end the chat: break
ExitWord ==
    /\ dq_pc = "input"
    /\ round_num < MaxTurns
    /\ \E typed \in UserInputs : lower(strip(typed)) \in EXIT_WORDS
    /\ round_num' = round_num + 1
    /\ dq_pc' = "returned"
    /\ UNCHANGED <<preferences, parsed, replies, chat_others_unchanged>>

\* an iteration with a conversational reply, up to the next input() call
Turn ==
    /\ dq_pc = "input"
    /\ round_num < MaxTurns
    /\ \E typed \in UserInputs :
          /\ strip(typed) /= <<>>
          /\ lower(strip(typed)) \notin EXIT_WORDS
    /\ round_num' = round_num + 1
    /\ replies' = replies + 1
    /\ \E result \in ChainResults :
          /\ parsed' = parse_preferences(result)
          /\ preferences' = Merged(preferences, parsed')
    /\ dq_pc' = IF round_num' >= MinRounds THEN "offer" ELSE "input"
    /\ UNCHANGED chat_others_unchanged

\* the answer to "recommendations / chat" or to "keep chatting (Y/n)"
OfferAnswer ==
    /\ dq_pc = "offer"
    /\ \E typed \in OfferAnswers :
          LET more == lower(strip(typed))
              has_any == \E i \in 1..Len(preferences) : preferences[i].v /= None
          IN  dq_pc' = IF has_any
                       THEN IF more \in {<<"chat">>, <<"continue">>, <<"more">>, <<"c">>}
                            THEN "input" ELSE "returned"
                       ELSE IF more = <<"n">> THEN "returned" ELSE "input"
    /\ UNCHANGED <<round_num, preferences, parsed, replies, chat_others_unchanged>>

\* input() raises EOFError at the offer: break
OfferEOF ==
    /\ dq_pc = "offer"
    /\ dq_pc' = "returned"
    /\ UNCHANGED <<round_num, preferences, parsed, replies, chat_others_unchanged>>

NextChat ==
    \/ AskQuestions
    \/ EmptyInput
    \/ ExitWord
    \/ Turn
    \/ OfferAnswer
    \/ OfferEOF

SpecChat == InitChat /\ [][NextChat]_vars

----------------------------------------------------------------------------
(* Claims about the ratings of unknown items and about low ratings *)

\* the users of a chunk with only their ratings of at least HighRating
OnlyHigh(users) ==
    [i \in 1..Len(users) |->
        [users[i] EXCEPT !.scores = SelectSeq(@, LAMBDA r : r.score >= HighRating)]]

\* the users of a chunk with only their ratings of at least HighRating of
\* items of the movie index
OnlyKnownHigh(users, movie_index) ==
    [i \in 1..Len(users) |->
        [users[i] EXCEPT !.scores =
            SelectSeq(@, LAMBDA r : /\ r.score >= HighRating
                                    /\ Has(movie_index.movie_lookup, r.item_id))]]

\* every rating of a chunk, user after user
RECURSIVE AllScores(_)
AllScores(users) ==
    IF users = <<>> THEN <<>> ELSE Head(users).scores \o AllScores(Tail(users))

RECURSIVE TotalScore(_)
TotalScore(scores) ==
    IF scores = <<>> THEN 0 ELSE Head(scores).score + TotalScore(Tail(scores))

\* what the ratings of a chunk add to the entry of an item in movie_ratings
Tally(users, item_id) ==
    LET mine == SelectSeq(AllScores(users), LAMBDA r : r.item_id = item_id)
    IN  [total_score |-> TotalScore(mine),
         count |-> Len(mine),
         high_count |-> Len(SelectSeq(mine, LAMBDA r : r.score >= HighRating))]

\* C21: process_user_chunk adds every rating of the chunk to movie_ratings,
\* the ratings of items absent from movie_lookup included; the preference
\* profiles it saves are those of the chunk without the ratings of absent
\* items and without the ratings below 4.0, and the high-rated lists it saves
\* are those of the chunk without the ratings below 4.0.
C21_UnknownAndLowRatingsLeaveProfiles ==
    [][(pc = "users" /\ movies_index /= NoFile /\ user_stats' /= user_stats) =>
          LET state == LoadOrEmpty(user_stats, EmptyUserStats)
              users == data_users[loop_i]
          IN  /\ user_stats'.segment_preferences =
                    FoldUsers(state, movies_index,
                              OnlyKnownHigh(users, movies_index)).segment_preferences
              /\ user_stats'.user_segments =
                    FoldUsers(state, movies_index, OnlyHigh(users)).user_segments
              /\ \A i \in 1..Len(AllScores(users)) :
                    LET item_id == AllScores(users)[i].item_id
                        old == GetOr(state.movie_ratings, item_id, EmptyRating)
                        new == Get(user_stats'.movie_ratings, item_id)
                        add == Tally(users, item_id)
                    IN  /\ new.total_score = old.total_score + add.total_score
                        /\ new.count = old.count + add.count
                        /\ new.high_count = old.high_count + add.high_count]_vars

\* a chunk was folded that rates an item absent from the movie index highly
\* and rates an item of the index below 4.0
C21_Witness ==
    /\ user_stats /= NoFile
    /\ movies_index /= NoFile
    /\ \E i \in 1..Len(user_stats.movie_ratings) :
          /\ ~Has(movies_index.movie_lookup, user_stats.movie_ratings[i].k)
          /\ user_stats.movie_ratings[i].v.high_count >= 1
    /\ \E i \in 1..Len(user_stats.movie_ratings) :
          /\ Has(movies_index.movie_lookup, user_stats.movie_ratings[i].k)
          /\ user_stats.movie_ratings[i].v.count > user_stats.movie_ratings[i].v.high_count

----------------------------------------------------------------------------
(* Claims about interrupted generation *)

\* C22 (as claimed): whenever generation stops between two file writes, in a
\* first run or in a run after a refresh of the data, every file that the
\* index.json on disk lists exists in the output directory and holds exactly
\* item_count recommendations.
C22_IndexOnDiskAgreesWithFiles ==
    index_json /= NoFile =>
        \A i \in 1..Len(index_json.files) :
            /\ FileExists(index_json.files[i].filename)
            /\ Len(load_recommendation_file(index_json.files[i].filename).recommendations)
                  = index_json.files[i].item_count

----------------------------------------------------------------------------
(* Claims about the completion of generation *)

\* C23 (as claimed): over the states that the movie fold and the user fold
\* produce, generate_all_recommendations raises nothing and ends with
\* index.json written, also when an item absent from the movie index was
\* rated three times or more, or twice highly.
C23_GenerationCompletes ==
    (movies_index /= NoFile /\ user_stats /= NoFile) =>
        /\ pc /= "raised"
        /\ pc = "done" => index_json /= NoFile

----------------------------------------------------------------------------
(* Claims about the genre files and the segment files *)

\* the sort key of an item of a genre file
GenreKey(item_id) ==
    LET rating_info == Get(user_stats.movie_ratings, item_id)
    IN  [a |-> rating_info.high_count, n |-> rating_info.total_score,
         d |-> rating_info.count]

\* C24: an iteration of the genre loop writes a file only for a genre with at
\* least 5 movies and at least one recommendation; the file lists at most 20
\* items, each a member of movies_by_genre[genre] that has a rating, in
\* descending order of (high_count, average rating).
C24_GenreFileFromItsGenre ==
    [][(pc = "genre" /\ generated_files' /= generated_files) =>
          LET genre == movies_index.all_genres[loop_i].k
              members == GetOr(movies_index.movies_by_genre, genre, <<>>)
              recs == outdir'[GenreFilename(genre)].recommendations
          IN  /\ Cardinality(Range(members)) >= MinGenreMovies
              /\ Len(recs) >= 1
              /\ Len(recs) <= TopN
              /\ \A i \in 1..Len(recs) :
                    /\ Contains(members, recs[i].item_id)
                    /\ Has(user_stats.movie_ratings, recs[i].item_id)
                    /\ Get(user_stats.movie_ratings, recs[i].item_id).count >= 1
              /\ \A i \in 1..Len(recs), j \in 1..Len(recs) :
                    i < j => ~KeyLess(GenreKey(recs[i].item_id), GenreKey(recs[j].item_id))]_vars

\* a genre file of 20 items was written for a genre with more than 20 rated
\* movies
C24_Witness ==
    \E i \in 1..Len(generated_files) :
        /\ generated_files[i].type = "genre"
        /\ generated_files[i].item_count = TopN
        /\ Len(ScoredMovies(Get(movies_index.movies_by_genre, generated_files[i].tag),
                            user_stats)) > TopN

\* the number of times an item is in a list
Occurrences(items, item_id) == Cardinality({i \in 1..Len(items) : items[i] = item_id})

\* C25: an iteration of the segment loop writes a file exactly when the segment
\* has at least 3 users; the file lists at most 20 items, in non-increasing
\* order of their number of occurrences in the segment's high-rated list,
\* and each listed item has fewer than 20 items with more occurrences.
C25_SegmentFileByHighRatings ==
    [][pc = "segment" =>
          LET segment_tag == user_stats.user_segments[loop_i].k
              segment_data == user_stats.user_segments[loop_i].v
              liked == segment_data.high_rated_movies
              recs == outdir'[SegmentFilename(segment_tag)].recommendations
          IN  /\ generated_files' /= generated_files <=> Len(segment_data.users) >= MinSegmentUsers
              /\ generated_files' /= generated_files =>
                    /\ Len(recs) <= TopN
                    /\ \A i \in 1..Len(recs), j \in 1..Len(recs) :
                          i < j => Occurrences(liked, recs[i].item_id)
                                      >= Occurrences(liked, recs[j].item_id)
                    /\ \A i \in 1..Len(recs) :
                          /\ Contains(liked, recs[i].item_id)
                          /\ Cardinality({x \in Range(liked) :
                                  Occurrences(liked, x) > Occurrences(liked, recs[i].item_id)})
                                < TopN]_vars

\* a segment file was written for a segment that rated more than 20 items
\* highly
C25_Witness ==
    /\ user_stats /= NoFile
    /\ \E i \in 1..Len(generated_files) :
          /\ generated_files[i].type = "segment"
          /\ Has(user_stats.user_segments, generated_files[i].tag)
          /\ Cardinality(Range(Get(user_stats.user_segments,
                                   generated_files[i].tag).high_rated_movies)) > TopN

----------------------------------------------------------------------------
(* Claims about the filenames of the master index *)

\* C26 (as claimed): no two entries of the master index that a run writes
\* have the same filename.
C26_DistinctFilenames ==
    index_json /= NoFile =>
        \A i \in 1..Len(index_json.files), j \in 1..Len(index_json.files) :
            i /= j => index_json.files[i].filename /= index_json.files[j].filename

----------------------------------------------------------------------------
(* Claims about reaching an index entry by its facet *)

\* C27 (as claimed): a call of get_recommendations_semantic whose only
\* argument is the facet of a non-fallback index entry, set to the entry's
\* tag, returns with the description of the entry's file among the sources.
C27_EntryReachedByOwnFacet ==
    (qpc /= "idle" /\ index_json /= NoFile) =>
        \A i \in 1..Len(index_json.files) :
            (~index_json.files[i].is_fallback /\ args = OwnFacetArgs(index_json.files[i])) =>
                /\ qpc = "returned"
                /\ Contains(sources, index_json.files[i].description)

----------------------------------------------------------------------------
(* Claims about the conversation *)

\* C28 (as claimed): ask_questions asks whether to show recommendations or
\* to stop chatting only when the user has given at least min_rounds
\* conversational replies, empty inputs not counted.
C28_OfferAfterMinRoundsReplies ==
    dq_pc = "offer" => replies >= MinRounds

\* C30: a turn of the conversation sets each facet that the turn inferred to
\* the inferred value and leaves every other facet as it was: no facet goes
\* back to None, and a turn that infers nothing (the chain raised, or every
\* value was None or matched no option) changes no preference.
C30_PreferencesMonotone ==
    [][(dq_pc \in {"input", "offer"}) =>
          /\ \A i \in 1..Len(FACETS) :
                /\ preferences'[i].k = FACETS[i]
                /\ (preferences[i].v /= None) => (preferences'[i].v /= None)
                /\ (preferences'[i].v /= preferences[i].v) =>
                      (/\ replies' = replies + 1
                       /\ preferences'[i].v = Get(parsed', FACETS[i])
                       /\ preferences'[i].v /= None)
                /\ (replies' = replies + 1 /\ Get(parsed', FACETS[i]) /= None) =>
                      (preferences'[i].v = Get(parsed', FACETS[i]))
          /\ (replies' = replies + 1 /\ \A i \in 1..Len(FACETS) : parsed'[i].v = None) =>
                (preferences' = preferences)]_vars

\* a facet was set in an earlier turn, and the last turn inferred nothing
C30_Witness ==
    /\ dq_pc \in {"input", "offer"}
    /\ replies >= 2
    /\ parsed /= <<>>
    /\ \A i \in 1..Len(parsed) : parsed[i].v = None
    /\ \E i \in 1..Len(preferences) : Truthy(preferences[i].v)

----------------------------------------------------------------------------
(* Claims about the totals of the master index *)

\* the user ids of the chunks of data/
AllUserIds ==
    UNION {{data_users[c][u].user_id : u \in 1..Len(data_users[c])} : c \in 1..Len(data_users)}

\* C29 (as claimed): total_users_analyzed of the master index that a run
\* writes is the number of distinct user ids of the user chunks it folded.
C29_TotalUsersCountsDistinctUsers ==
    (pc = "done" /\ index_json /= NoFile) =>
        index_json.total_users_analyzed = Cardinality(AllUserIds)

====
